---- MODULE Spec2Model ----
(***************************************************************************)
(* Household finance tracker (naranrosa/controle).                         *)
(*                                                                         *)
(* The repository holds three snapshots of the same single-page app:       *)
(*   src/index.tsx          local-state variant  (no backend)              *)
(*   src/unnamed/part_000   per-user backend variant (user_id rows)        *)
(*   src/unnamed/part_001   household backend variant (family_id rows)     *)
(*                                                                         *)
(* Amounts are JavaScript numbers in the source; here they are integers    *)
(* (currency units).  Quotients are kept exact: a rate is a fraction       *)
(* [num, den], a half amount is carried in half units.                     *)
(*                                                                         *)
(* Strings hold 7-bit characters only: the accented letters of the texts   *)
(* of the source are written without their accent (Não is "Nao").          *)
(***************************************************************************)
EXTENDS Integers, Sequences, FiniteSets, TLC

VARIABLES
    variant,            \* which snapshot of the app is running
    timezoneOffset,     \* Date.prototype.getTimezoneOffset() of the client, minutes
    session,            \* App.session
    fetchPending,       \* the [session] effect has been scheduled and not run yet
    familyId,           \* App.familyId
    familyMembers,      \* App.familyMembers
    transactions,       \* App.transactions
    goals,              \* App.goals
    budgets,            \* App.budgets
    currentDate,        \* App.currentDate (local calendar date of the Date object)
    editingTransaction, \* Transactions.editingTransaction: <<>> is null, else the
                        \* id and date of the transaction being edited
    editingGoal,        \* Goals.editingGoal (<<>> is null)
    ai,                 \* whether the module-level GoogleGenAI client exists
    messages,           \* Chat.messages (<<>> while the Chat screen was never opened)
    requests,           \* the invocations of Chat.handleSendMessage, in send order
    calls,              \* the invocations of the form handlers that reached their
                        \* backend call, in start order (split-handler specifications)
    fetches,            \* the invocations of App.fetchData, in start order
                        \* (split-handler specifications)
    theme,              \* App.theme
    storage,            \* localStorage.getItem('theme'), Null when absent
    startup,            \* where the theme effects of the mount are, and what the
                        \* page was loaded with
    aiInsight,          \* Reports.aiInsight
    aiSuggestion,       \* Goals.aiSuggestion
    aiCalls,            \* the generateContent calls of Reports and Goals, in start order
    inputText,          \* MultipleTransactions.inputText
    parsedTransactions  \* MultipleTransactions.parsedTransactions

vars == <<variant, timezoneOffset, session, fetchPending, familyId, familyMembers,
          transactions, goals, budgets, currentDate, editingTransaction, editingGoal,
          ai, messages, requests, calls, fetches, theme, storage, startup,
          aiInsight, aiSuggestion, aiCalls, inputText, parsedTransactions>>

Null == "null"

\* ------------------------------------------------------------------------
\* Bounds of the model
\* ------------------------------------------------------------------------
MaxTx == 2          \* longest in-memory transaction list
MaxNav == 1         \* how many months away from the start month the navigator goes
MaxGoals == 2       \* longest in-memory goal list
MaxSends == 2       \* how many chat messages are sent

\* ------------------------------------------------------------------------
\* Calendar: what the JavaScript Date object does
\* ------------------------------------------------------------------------
StartYear == 2025

IsLeap(y) == (y % 4 = 0 /\ y % 100 # 0) \/ y % 400 = 0

\* m is a JavaScript month, 0..11
DaysInMonth(y, m) ==
    IF m = 1 THEN (IF IsLeap(y) THEN 29 ELSE 28)
    ELSE IF m \in {3, 5, 8, 10} THEN 30 ELSE 31

\* Date normalisation: a month outside 0..11 carries into the year, a day
\* past the end of the month carries into the next month.
MakeDate(y, m, d) ==
    LET ny  == y + (m \div 12)
        nm  == m % 12
        dim == DaysInMonth(ny, nm)
    IN  IF d <= dim
        THEN [y |-> ny, m |-> nm, d |-> d]
        ELSE [y |-> ny + ((nm + 1) \div 12), m |-> (nm + 1) % 12, d |-> d - dim]

PrevDay(date) ==
    IF date.d > 1
    THEN [date EXCEPT !.d = date.d - 1]
    ELSE LET py == date.y + ((date.m - 1) \div 12)
             pm == (date.m - 1) % 12
         IN  [y |-> py, m |-> pm, d |-> DaysInMonth(py, pm)]

\* A stored date is the string "YYYY-MM-DD", kept as [yyyy, mm, dd], mm in 1..12.
\* new Date("YYYY-MM-DD") is midnight UTC of that day.
ParseDate(s) == [y |-> s.yyyy, m |-> s.mm - 1, d |-> s.dd]

\* getFullYear()/getMonth()/getDate() of an instant that is midnight UTC:
\* west of Greenwich (offset > 0) it is still the previous local day.
LocalDate(utcMidnight) ==
    IF timezoneOffset > 0 THEN PrevDay(utcMidnight) ELSE utcMidnight

\* getTime() order of two stored dates
DateKey(s) == (s.yyyy * 12 + (s.mm - 1)) * 31 + (s.dd - 1)

MonthIndex(date) == date.y * 12 + date.m

\* ------------------------------------------------------------------------
\* Sequence helpers
\* ------------------------------------------------------------------------
Ids(s) == {s[i].id : i \in DOMAIN s}

\* An id the backend has not handed out to any row the client still knows.
FreshId(used) == CHOOSE n \in 1..(Cardinality(used) + 1) :
                    n \notin used /\ \A k \in 1..(n - 1) : k \in used

Abs(x) == IF x < 0 THEN -x ELSE x

\* ------------------------------------------------------------------------
\* App: derived lists
\* ------------------------------------------------------------------------
\* [...transactions].sort((a, b) => new Date(b.date).getTime() - new Date(a.date).getTime())
RECURSIVE InsertByDateDesc(_, _)
InsertByDateDesc(x, s) ==
    IF s = <<>> THEN <<x>>
    ELSE IF DateKey(x.date) > DateKey(Head(s).date) THEN <<x>> \o s
         ELSE <<Head(s)>> \o InsertByDateDesc(x, Tail(s))

RECURSIVE SortByDateDesc(_)
SortByDateDesc(s) ==
    IF s = <<>> THEN <<>>
    ELSE InsertByDateDesc(s[Len(s)], SortByDateDesc(SubSeq(s, 1, Len(s) - 1)))

allSortedTransactions == SortByDateDesc(transactions)

\* the predicate of filteredTransactions
InSelectedMonth(t) ==
    LET transactionDate == LocalDate(ParseDate(t.date))
    IN  /\ transactionDate.y = currentDate.y
        /\ transactionDate.m = currentDate.m

filteredTransactions == SelectSeq(allSortedTransactions, InSelectedMonth)

\* the same two steps applied to any list
FilteredOf(list) == SelectSeq(SortByDateDesc(list), InSelectedMonth)

\* ------------------------------------------------------------------------
\* Dashboard: aggregation
\* ------------------------------------------------------------------------
IsIncome(t) == t.flow = "income"
IsExpense(t) == t.flow = "expense"

\* reduce((sum, t) => sum + t.amount, 0)
RECURSIVE SumAmount(_)
SumAmount(s) == IF s = <<>> THEN 0 ELSE SumAmount(SubSeq(s, 1, Len(s) - 1)) + s[Len(s)].amount

Totals_sign(txs) ==
    LET income   == SumAmount(SelectSeq(txs, IsIncome))
        expenses == SumAmount(SelectSeq(txs, IsExpense))
    IN  [totalIncome |-> income, totalExpenses |-> expenses, netBalance |-> expenses - income]

Totals(txs) ==
    LET income   == SumAmount(SelectSeq(txs, IsIncome))
        expenses == SumAmount(SelectSeq(txs, IsExpense))
    IN  [totalIncome |-> income, totalExpenses |-> expenses, netBalance |-> income - expenses]

savingsRate_noGuard(txs) ==
    LET t == Totals(txs)
    IN  [num |-> t.netBalance * 100, den |-> t.totalIncome]

\* (netBalance / totalIncome) * 100 as the fraction num/den; 0 is 0/1
savingsRate(txs) ==
    LET t == Totals(txs)
    IN  IF t.totalIncome = 0 THEN [num |-> 0, den |-> 1]
        ELSE [num |-> t.netBalance * 100, den |-> t.totalIncome]

toFixed1_truncate(r) ==
    LET n == (10 * Abs(r.num)) \div Abs(r.den)
    IN  [negative |-> (r.num < 0) # (r.den < 0) /\ r.num # 0,
         int |-> n \div 10, frac |-> n % 10]

\* Number.prototype.toFixed(1) of the fraction r: the sign, then the n for
\* which n/10 is closest to |r| (the larger n on a tie), printed as int.frac
toFixed1(r) ==
    LET n == (20 * Abs(r.num) + Abs(r.den)) \div (2 * Abs(r.den))
    IN  [negative |-> (r.num < 0) # (r.den < 0) /\ r.num # 0,
         int |-> n \div 10, frac |-> n % 10]

\* Math.round of the fraction num/den, den > 0: floor(x + 1/2)
MathRound(num, den) == (2 * num + den) \div (2 * den)

\* acc[t.category] = (acc[t.category] || 0) + t.amount; the object keeps its
\* keys in insertion order, so it is a sequence of [category, total] entries
AccumulateCategory(acc, t) ==
    IF \E i \in DOMAIN acc : acc[i].category = t.category
    THEN [i \in DOMAIN acc |->
            IF acc[i].category = t.category
            THEN [acc[i] EXCEPT !.total = @ + t.amount] ELSE acc[i]]
    ELSE Append(acc, [category |-> t.category, total |-> t.amount])

RECURSIVE CategoryTotals(_)
CategoryTotals(s) ==
    IF s = <<>> THEN <<>>
    ELSE AccumulateCategory(CategoryTotals(SubSeq(s, 1, Len(s) - 1)), s[Len(s)])

expenseTotals(txs) == CategoryTotals(SelectSeq(txs, IsExpense))

\* Object.entries(...).sort((a, b) => b[1] - a[1])
RECURSIVE InsertByTotalDesc(_, _)
InsertByTotalDesc(x, s) ==
    IF s = <<>> THEN <<x>>
    ELSE IF x.total > Head(s).total THEN <<x>> \o s
         ELSE <<Head(s)>> \o InsertByTotalDesc(x, Tail(s))

RECURSIVE SortByTotalDesc(_)
SortByTotalDesc(s) ==
    IF s = <<>> THEN <<>>
    ELSE InsertByTotalDesc(s[Len(s)], SortByTotalDesc(SubSeq(s, 1, Len(s) - 1)))

topExpenseCategory(txs) ==
    LET totals == expenseTotals(txs)
    IN  IF Len(totals) = 0 THEN [category |-> "Nenhum", amount |-> 0]
        ELSE LET topCategory == SortByTotalDesc(totals)[1]
             IN  [category |-> topCategory.category, amount |-> topCategory.total]

\* Household variant: one total per family member, in half units.  An
\* expense counts only when its person is one of the keys of the object.
MemberNames(members) == {members[i].display_name : i \in DOMAIN members}

RECURSIVE individualExpenses(_, _)
individualExpenses(txs, members) ==
    IF txs = <<>> THEN [name \in MemberNames(members) |-> 0]
    ELSE LET expenses == individualExpenses(SubSeq(txs, 1, Len(txs) - 1), members)
             t == txs[Len(txs)]
         IN  IF IsExpense(t) /\ t.person \in DOMAIN expenses
             THEN [expenses EXCEPT ![t.person] = @ + 2 * t.amount]
             ELSE expenses

\* Local-state and per-user variants: two fixed people, in half units.
RECURSIVE natanJussaraExpenses(_)
natanJussaraExpenses(txs) ==
    IF txs = <<>> THEN [natanExpenses |-> 0, jussaraExpenses |-> 0]
    ELSE LET acc == natanJussaraExpenses(SubSeq(txs, 1, Len(txs) - 1))
             t == txs[Len(txs)]
         IN  IF ~IsExpense(t) THEN acc
             ELSE IF t.person = "Natan"
                  THEN [acc EXCEPT !.natanExpenses = @ + 2 * t.amount]
             ELSE IF t.person = "Jussara"
                  THEN [acc EXCEPT !.jussaraExpenses = @ + 2 * t.amount]
             ELSE IF t.person = "Ambos"
                  THEN [natanExpenses |-> acc.natanExpenses + t.amount,
                        jussaraExpenses |-> acc.jussaraExpenses + t.amount]
             ELSE acc

\* ------------------------------------------------------------------------
\* Budgets and Goals: what a card shows
\* ------------------------------------------------------------------------
\* monthlySpending[budget.category] || 0
Spent(txs, category) ==
    LET totals == expenseTotals(txs)
    IN  IF \E i \in DOMAIN totals : totals[i].category = category
        THEN (CHOOSE e \in {totals[i] : i \in DOMAIN totals} : e.category = category).total
        ELSE 0

BudgetCard_strict(txs, budget) ==
    LET spent     == Spent(txs, budget.category)
        remaining == budget.amount - spent
    IN  [spent |-> spent, remaining |-> remaining,
         label |-> IF remaining > 0 THEN "Resta" ELSE "Excedeu",
         shown |-> IF remaining > 0 THEN remaining ELSE Abs(remaining)]

BudgetCard(txs, budget) ==
    LET spent     == Spent(txs, budget.category)
        remaining == budget.amount - spent
    IN  [spent |-> spent, remaining |-> remaining,
         label |-> IF remaining >= 0 THEN "Resta" ELSE "Excedeu",
         shown |-> IF remaining >= 0 THEN remaining ELSE Abs(remaining)]

GoalProgress_floor(goal) ==
    IF goal.targetAmount > 0
    THEN (goal.currentAmount * 100) \div goal.targetAmount
    ELSE 0

\* Math.round(progress) where progress = targetAmount > 0 ? current/target*100 : 0
GoalProgress(goal) ==
    IF goal.targetAmount > 0
    THEN MathRound(goal.currentAmount * 100, goal.targetAmount)
    ELSE 0

\* ------------------------------------------------------------------------
\* Inputs of the model
\* ------------------------------------------------------------------------
Members == << [id |-> "u1", display_name |-> "Natan"],
              [id |-> "u2", display_name |-> "Jussara"] >>

\* what the add/edit form can submit: an income, or an expense in one of two
\* categories for one of the person options [...names, 'Ambos']
FormDrafts ==
    { [description |-> "Salario Mensal", amount |-> 3000, category |-> "Salario",
       person |-> "Natan", flow |-> "income"],
      [description |-> "Aluguel", amount |-> 2000, category |-> "Moradia",
       person |-> "Ambos", flow |-> "expense"],
      [description |-> "Restaurante", amount |-> 2000, category |-> "Lazer",
       person |-> "Natan", flow |-> "expense"],
      [description |-> "Cinema", amount |-> 1000, category |-> "Lazer",
       person |-> "Jussara", flow |-> "expense"] }

\* new Date().toISOString().split('T')[0] at the moments a form is submitted
Todays == { [yyyy |-> 2025, mm |-> 2, dd |-> 15], [yyyy |-> 2025, mm |-> 3, dd |-> 1] }

\* new Date() when the App mounts: 15 February 2025
StartDates == { [y |-> StartYear, m |-> 1, d |-> 15] }
StartMonthIndex == StartYear * 12 + 1

\* getTimezoneOffset(): UTC, or UTC-3 (America/Sao_Paulo)
TimezoneOffsets == {0, 180}

Row(id, draft, date) ==
    [id |-> id, description |-> draft.description, amount |-> draft.amount,
     category |-> draft.category, person |-> draft.person, flow |-> draft.flow,
     date |-> date]

\* rows the backend may already hold for the household when the data is fetched
StoredTransactions ==
    { <<>>,
      << Row(1, [description |-> "Aluguel", amount |-> 2000, category |-> "Moradia",
                 person |-> "Ambos", flow |-> "expense"],
             [yyyy |-> 2025, mm |-> 2, dd |-> 1]) >> }

\* ------------------------------------------------------------------------
\* App: session and data loading (household variant)
\* ------------------------------------------------------------------------
envVars  == <<variant, timezoneOffset, ai>>
multiVars == <<inputText, parsedTransactions>>
themeVars == <<theme, storage, startup>>
aiVars == <<aiInsight, aiSuggestion, aiCalls>>
chatVars == <<messages, requests>>
authVars == <<session, fetchPending, familyId, familyMembers>>

\* the theme effects of the mount are over: a page loaded without a stored
\* flag on a device that prefers light
StartupSettled ==
    /\ theme = "light"
    /\ storage = "light"
    /\ startup = [pc |-> "settled", strict |-> FALSE, prefersDark |-> FALSE,
                  savedTheme |-> Null, queue |-> <<>>]

\* getSession().then(...) / onAuthStateChange deliver a session; the
\* [session] effect is then due
SetSession ==
    /\ variant # "local"
    /\ session = Null
    /\ session' = "session"
    /\ fetchPending' = TRUE
    /\ UNCHANGED <<envVars, multiVars, aiVars, themeVars, fetches, calls, chatVars, familyId, familyMembers, transactions, goals, budgets,
                   currentDate, editingTransaction, editingGoal>>

\* fetchData: the profile read, then members, transactions, goals, budgets;
\* a failed read logs and leaves its list as it was
FetchData(txRows, goalRows, budgetRows) ==
    /\ variant = "household"
    /\ fetchPending
    /\ session # Null
    /\ fetchPending' = FALSE
    /\ \/ \* profileError || !profileData
          UNCHANGED <<familyId, familyMembers, transactions, goals, budgets>>
       \/ /\ familyId' = "family"
          /\ familyMembers' \in {familyMembers, Members}
          /\ \/ UNCHANGED transactions
             \/ \E rows \in txRows : transactions' = rows
          /\ \/ UNCHANGED goals
             \/ \E rows \in goalRows : goals' = rows
          /\ \/ UNCHANGED budgets
             \/ \E rows \in budgetRows : budgets' = rows
    /\ UNCHANGED <<envVars, multiVars, aiVars, themeVars, fetches, calls, chatVars, session, currentDate, editingTransaction, editingGoal>>

\* ------------------------------------------------------------------------
\* MonthNavigator
\* ------------------------------------------------------------------------
\* newDate.setMonth(newDate.getMonth() + offset)
changeMonth(offset) ==
    /\ session # Null
    /\ LET newDate == MakeDate(currentDate.y, currentDate.m + offset, currentDate.d)
       IN  /\ Abs(MonthIndex(newDate) - StartMonthIndex) <= MaxNav
           /\ currentDate' = newDate
    /\ UNCHANGED <<envVars, multiVars, aiVars, themeVars, fetches, calls, chatVars, authVars, transactions, goals, budgets,
                   editingTransaction, editingGoal>>

\* ------------------------------------------------------------------------
\* Transactions screen (household variant)
\* ------------------------------------------------------------------------
handleSetEditing(t) ==
    /\ session # Null
    /\ editingTransaction' = << [id |-> t.id, date |-> t.date] >>
    /\ UNCHANGED <<envVars, multiVars, aiVars, themeVars, fetches, calls, chatVars, authVars, transactions, goals, budgets, currentDate, editingGoal>>

\* the "Cancelar Edição" button
cancelEditing ==
    /\ session # Null
    /\ editingTransaction # <<>>
    /\ editingTransaction' = <<>>
    /\ UNCHANGED <<envVars, multiVars, aiVars, themeVars, fetches, calls, chatVars, authVars, transactions, goals, budgets, currentDate, editingGoal>>

\* The form is submitted with `draft` on the day `today`; the backend answers
\* with an error (ok = FALSE) or echoes the rows it wrote.
handleAddOrUpdateTransaction(draft, today, ok) ==
    /\ session # Null
    /\ familyId # Null
    /\ IF editingTransaction # <<>>
       THEN LET editing == editingTransaction[1]
                \* .update(transactionData).eq('id', editing.id).select()
                data == IF editing.id \in Ids(transactions)
                        THEN << Row(editing.id, draft, editing.date) >>
                        ELSE <<>>
            IN  IF ~ok
                THEN UNCHANGED <<transactions, editingTransaction>>
                ELSE /\ transactions' =
                            [i \in DOMAIN transactions |->
                                IF transactions[i].id = editing.id THEN data[1]
                                ELSE transactions[i]]
                     /\ editingTransaction' = <<>>
       ELSE /\ Len(transactions) < MaxTx
            /\ LET data == << Row(FreshId(Ids(transactions) \cup Ids(editingTransaction)), draft, today) >>
               IN  IF ~ok
                   THEN UNCHANGED transactions
                   ELSE transactions' = <<data[1]>> \o transactions
            /\ UNCHANGED editingTransaction
    /\ UNCHANGED <<envVars, multiVars, aiVars, themeVars, fetches, calls, chatVars, authVars, goals, budgets, currentDate, editingGoal>>

handleDeleteTransaction(transactionId, ok) ==
    /\ session # Null
    /\ transactionId \in Ids(transactions)
    /\ IF ~ok
       THEN UNCHANGED transactions
       ELSE transactions' = SelectSeq(transactions, LAMBDA t : t.id # transactionId)
    /\ UNCHANGED <<envVars, multiVars, aiVars, themeVars, fetches, calls, chatVars, authVars, goals, budgets, currentDate,
                   editingTransaction, editingGoal>>

\* ------------------------------------------------------------------------
\* Specification of the dashboard: the household app with its transaction
\* form, the delete button and the month navigator
\* ------------------------------------------------------------------------
InitDash ==
    /\ variant = "household"
    /\ timezoneOffset \in TimezoneOffsets
    /\ session = Null
    /\ fetchPending = FALSE
    /\ familyId = Null
    /\ familyMembers = <<>>
    /\ transactions = <<>>
    /\ goals = <<>>
    /\ budgets = <<>>
    /\ currentDate \in StartDates
    /\ editingTransaction = <<>>
    /\ editingGoal = <<>>
    /\ ai = TRUE
    /\ messages = <<>>
    /\ requests = <<>>
    /\ calls = <<>>
    /\ aiInsight = ""
    /\ aiSuggestion = ""
    /\ aiCalls = <<>>
    /\ inputText = ""
    /\ parsedTransactions = <<>>
    /\ fetches = <<>>
    /\ StartupSettled

NextDash ==
    \/ SetSession
    \/ FetchData(StoredTransactions, {<<>>}, {<<>>})
    \/ \E offset \in {-1, 1} : changeMonth(offset)
    \/ \E i \in DOMAIN transactions : handleSetEditing(transactions[i])
    \/ cancelEditing
    \/ \E draft \in FormDrafts, today \in Todays, ok \in BOOLEAN :
          handleAddOrUpdateTransaction(draft, today, ok)
    \/ \E i \in DOMAIN transactions, ok \in BOOLEAN :
          handleDeleteTransaction(transactions[i].id, ok)

SpecDash == InitDash /\ [][NextDash]_vars

\* ------------------------------------------------------------------------
\* Budgets screen (household variant)
\* ------------------------------------------------------------------------
BudgetCategories == {"Moradia", "Lazer"}
BudgetAmounts == {1000, 2000, 3000}

\* budgets.find(b => b.category === category): the first one, <<>> if none
FindBudget(category) ==
    LET hits == SelectSeq(budgets, LAMBDA b : b.category = category)
    IN  IF hits = <<>> THEN <<>> ELSE <<hits[1]>>

addBudget(category, amount, ok) ==
    /\ session # Null
    /\ familyId # Null
    /\ LET existingBudget == FindBudget(category)
       IN  IF existingBudget # <<>>
           THEN LET data == << [existingBudget[1] EXCEPT !.amount = amount] >>
                IN  IF ~ok
                    THEN UNCHANGED budgets
                    ELSE budgets' = [i \in DOMAIN budgets |->
                                        IF budgets[i].id = existingBudget[1].id
                                        THEN data[1] ELSE budgets[i]]
           ELSE LET data == << [id |-> FreshId(Ids(budgets)), category |-> category,
                                amount |-> amount] >>
                IN  IF ~ok
                    THEN UNCHANGED budgets
                    ELSE budgets' = budgets \o <<data[1]>>
    /\ UNCHANGED <<envVars, multiVars, aiVars, themeVars, fetches, calls, chatVars, authVars, transactions, goals, currentDate,
                   editingTransaction, editingGoal>>

handleDeleteBudget(budgetId, ok) ==
    /\ session # Null
    /\ budgetId \in Ids(budgets)
    /\ IF ~ok
       THEN UNCHANGED budgets
       ELSE budgets' = SelectSeq(budgets, LAMBDA b : b.id # budgetId)
    /\ UNCHANGED <<envVars, multiVars, aiVars, themeVars, fetches, calls, chatVars, authVars, transactions, goals, currentDate,
                   editingTransaction, editingGoal>>

\* rows the backend may hold when the budgets screen is studied
StoredBudgets == { <<>>, << [id |-> 1, category |-> "Moradia", amount |-> 2000] >> }

StoredTransactionsOfBudgets ==
    { <<>>,
      << Row(1, [description |-> "Aluguel", amount |-> 2000, category |-> "Moradia",
                 person |-> "Ambos", flow |-> "expense"],
             [yyyy |-> 2025, mm |-> 2, dd |-> 15]) >>,
      << Row(3, [description |-> "Restaurante", amount |-> 2000, category |-> "Lazer",
                 person |-> "Natan", flow |-> "expense"],
             [yyyy |-> 2025, mm |-> 3, dd |-> 1]),
         Row(1, [description |-> "Aluguel", amount |-> 2000, category |-> "Moradia",
                 person |-> "Ambos", flow |-> "expense"],
             [yyyy |-> 2025, mm |-> 2, dd |-> 15]),
         Row(2, [description |-> "Cinema", amount |-> 1000, category |-> "Lazer",
                 person |-> "Jussara", flow |-> "expense"],
             [yyyy |-> 2025, mm |-> 2, dd |-> 15]) >> }

NextBudgets ==
    \/ SetSession
    \/ FetchData(StoredTransactionsOfBudgets, {<<>>}, StoredBudgets)
    \/ \E offset \in {-1, 1} : changeMonth(offset)
    \/ \E category \in BudgetCategories, amount \in BudgetAmounts, ok \in BOOLEAN :
          addBudget(category, amount, ok)
    \/ \E i \in DOMAIN budgets, ok \in BOOLEAN : handleDeleteBudget(budgets[i].id, ok)

SpecBudgets == InitDash /\ [][NextBudgets]_vars

\* ------------------------------------------------------------------------
\* Goals screen (household variant)
\* ------------------------------------------------------------------------
GoalNames == {"Viagem"}
GoalTargets == {0, 3, 10000}

setEditingGoal(goal) ==
    /\ session # Null
    /\ editingGoal' = << [id |-> goal.id] >>
    /\ UNCHANGED <<envVars, multiVars, aiVars, themeVars, fetches, calls, chatVars, authVars, transactions, goals, budgets, currentDate,
                   editingTransaction>>

cancelEditingGoal ==
    /\ session # Null
    /\ editingGoal # <<>>
    /\ editingGoal' = <<>>
    /\ UNCHANGED <<envVars, multiVars, aiVars, themeVars, fetches, calls, chatVars, authVars, transactions, goals, budgets, currentDate,
                   editingTransaction>>

handleAddOrUpdateGoal(name, targetAmount, ok) ==
    /\ session # Null
    /\ familyId # Null
    /\ IF editingGoal # <<>>
       THEN LET id   == editingGoal[1].id
                rows == SelectSeq(goals, LAMBDA g : g.id = id)
                \* .update({ name, targetAmount }).eq('id', id).select()
                data == IF rows = <<>> THEN <<>>
                        ELSE << [rows[1] EXCEPT !.name = name,
                                                !.targetAmount = targetAmount] >>
            IN  IF ~ok
                THEN UNCHANGED <<goals, editingGoal>>
                ELSE /\ goals' = [i \in DOMAIN goals |->
                                    IF goals[i].id = id THEN data[1] ELSE goals[i]]
                     /\ editingGoal' = <<>>
       ELSE /\ Len(goals) < MaxGoals
            /\ LET data == << [id |-> FreshId(Ids(goals) \cup Ids(editingGoal)),
                               name |-> name, targetAmount |-> targetAmount,
                               currentAmount |-> 0] >>
               IN  IF ~ok
                   THEN UNCHANGED goals
                   ELSE goals' = goals \o <<data[1]>>
            /\ UNCHANGED editingGoal
    /\ UNCHANGED <<envVars, multiVars, aiVars, themeVars, fetches, calls, chatVars, authVars, transactions, budgets, currentDate,
                   editingTransaction>>

handleDeleteGoal(goalId, ok) ==
    /\ session # Null
    /\ goalId \in Ids(goals)
    /\ IF ~ok
       THEN UNCHANGED goals
       ELSE goals' = SelectSeq(goals, LAMBDA g : g.id # goalId)
    /\ UNCHANGED <<envVars, multiVars, aiVars, themeVars, fetches, calls, chatVars, authVars, transactions, budgets, currentDate,
                   editingTransaction, editingGoal>>

\* the "Resumo das Metas" card of the Dashboard: goals.slice(0, 2)
goalSummary == [i \in 1..(IF Len(goals) < 2 THEN Len(goals) ELSE 2) |-> GoalProgress(goals[i])]

\* rows the backend may hold: saved amounts are written outside this screen
StoredGoals ==
    { <<>>,
      << [id |-> 1, name |-> "Viagem de lua de mel", targetAmount |-> 10000,
          currentAmount |-> 4500] >>,
      << [id |-> 1, name |-> "Reserva", targetAmount |-> 3, currentAmount |-> 2] >> }

NextGoals ==
    \/ SetSession
    \/ FetchData({<<>>}, StoredGoals, {<<>>})
    \/ \E i \in DOMAIN goals : setEditingGoal(goals[i])
    \/ cancelEditingGoal
    \/ \E name \in GoalNames, targetAmount \in GoalTargets, ok \in BOOLEAN :
          handleAddOrUpdateGoal(name, targetAmount, ok)
    \/ \E i \in DOMAIN goals, ok \in BOOLEAN : handleDeleteGoal(goals[i].id, ok)

SpecGoals == InitDash /\ [][NextGoals]_vars

\* ------------------------------------------------------------------------
\* Strings: what String.prototype and Number.prototype do
\* ------------------------------------------------------------------------
LowerChar(c) ==
    CASE c = "A" -> "a"
      [] c = "B" -> "b"
      [] c = "C" -> "c"
      [] c = "D" -> "d"
      [] c = "E" -> "e"
      [] c = "F" -> "f"
      [] c = "G" -> "g"
      [] c = "H" -> "h"
      [] c = "I" -> "i"
      [] c = "J" -> "j"
      [] c = "K" -> "k"
      [] c = "L" -> "l"
      [] c = "M" -> "m"
      [] c = "N" -> "n"
      [] c = "O" -> "o"
      [] c = "P" -> "p"
      [] c = "Q" -> "q"
      [] c = "R" -> "r"
      [] c = "S" -> "s"
      [] c = "T" -> "t"
      [] c = "U" -> "u"
      [] c = "V" -> "v"
      [] c = "W" -> "w"
      [] c = "X" -> "x"
      [] c = "Y" -> "y"
      [] c = "Z" -> "z"
      [] OTHER -> c

RECURSIVE toLowerCase(_)
toLowerCase(s) ==
    IF s = "" THEN "" ELSE LowerChar(SubSeq(s, 1, 1)) \o toLowerCase(SubSeq(s, 2, Len(s)))

\* s.includes(searchString): every string includes ""
includes(s, searchString) ==
    \E i \in 1..(Len(s) - Len(searchString) + 1) :
        SubSeq(s, i, i + Len(searchString) - 1) = searchString

RECURSIVE trim(_)
trim(s) ==
    IF s = "" THEN s
    ELSE IF SubSeq(s, 1, 1) = " " THEN trim(SubSeq(s, 2, Len(s)))
    ELSE IF SubSeq(s, Len(s), Len(s)) = " " THEN trim(SubSeq(s, 1, Len(s) - 1))
    ELSE s

\* truthiness of an optional string of the AI response
Truthy(v) == v # Null /\ v # ""

\* truthiness of an optional number (<<>> is undefined)
TruthyNumber(n) == n # <<>> /\ n[1] # 0

RECURSIVE GroupThousands(_)
GroupThousands(n) ==
    IF n < 1000 THEN ToString(n)
    ELSE LET low == n % 1000
         IN  GroupThousands(n \div 1000) \o "." \o
             (IF low < 10 THEN "00" ELSE IF low < 100 THEN "0" ELSE "") \o ToString(low)

\* value.toLocaleString('pt-BR', {style: 'currency', currency: 'BRL'}) of a
\* whole amount (the blank after R$ is a no-break space in the browser)
formatCurrency(value) == "R$ " \o GroupThousands(value) \o ",00"

\* ------------------------------------------------------------------------
\* Chat screen (all three variants)
\* ------------------------------------------------------------------------
\* The response of the model to one prompt.  kind: "json" is a parsed object,
\* "unparsable" a text JSON.parse rejects, "rejected" a failed call.  The
\* fields of the object, undefined being Null or <<>>:
\*   description  transactionUpdate.identifier.description,
\*                transactionIdentifier.description or transaction.description
\*   updates      transactionUpdate.updates
\*   amount       transaction.amount, goal.targetAmount or budget.amount
\*   name         goal.name
\*   category     transaction.category or budget.category
NoFields ==
    [kind |-> "json", action |-> Null, description |-> Null, updates |-> <<>>,
     amount |-> <<>>, flow |-> Null, category |-> Null, person |-> Null,
     name |-> Null, answer |-> Null]

Failures == { [NoFields EXCEPT !.kind = "rejected"], [NoFields EXCEPT !.kind = "unparsable"] }

\* an object without any of the fields: {}
EmptyObject == NoFields

HouseholdResponses ==
    { [NoFields EXCEPT !.action = "updateTransaction", !.description = "aluguel",
                       !.updates = << [amount |-> 1000] >>],
      [NoFields EXCEPT !.action = "updateTransaction", !.description = "viagem",
                       !.updates = << [amount |-> 1000] >>],
      [NoFields EXCEPT !.action = "updateTransaction", !.updates = << [amount |-> 1000] >>],
      [NoFields EXCEPT !.action = "updateTransaction", !.description = "aluguel"],
      [NoFields EXCEPT !.action = "deleteTransaction", !.description = "CINEMA"],
      [NoFields EXCEPT !.action = "deleteTransaction"],
      [NoFields EXCEPT !.action = "answerQuery", !.answer = "Voces gastaram 3000 este mes."],
      [NoFields EXCEPT !.action = "addTransaction", !.description = "Mercado",
                       !.amount = <<80>>] }

UserResponses ==
    { [NoFields EXCEPT !.action = "addTransaction", !.description = "Mercado",
                       !.amount = <<80>>],
      [NoFields EXCEPT !.action = "addTransaction", !.description = "Massagem",
                       !.amount = <<75>>, !.flow = "income", !.category = "Servicos",
                       !.person = "Jussara"],
      [NoFields EXCEPT !.action = "addTransaction", !.description = "Mercado"],
      [NoFields EXCEPT !.action = "addTransaction", !.amount = <<80>>],
      [NoFields EXCEPT !.action = "answerQuery", !.answer = "Voces gastaram 3000 este mes."],
      [NoFields EXCEPT !.action = "addGoal", !.name = "Carro", !.amount = <<20000>>],
      [NoFields EXCEPT !.action = "deleteTransaction", !.description = "aluguel"] }

LocalResponses ==
    { [NoFields EXCEPT !.action = "addTransaction", !.description = "Massagem",
                       !.amount = <<75>>, !.flow = "income", !.category = "Servicos",
                       !.person = "Jussara"],
      [NoFields EXCEPT !.action = "addTransaction", !.description = "Mercado"],
      [NoFields EXCEPT !.action = "addTransaction", !.amount = <<80>>],
      [NoFields EXCEPT !.action = "addGoal", !.name = "Carro", !.amount = <<20000>>],
      [NoFields EXCEPT !.action = "updateGoal", !.name = "viagem de lua de mel",
                       !.amount = <<12000>>],
      [NoFields EXCEPT !.action = "deleteGoal", !.name = "Reduzir gastos variaveis"],
      [NoFields EXCEPT !.action = "addBudget", !.category = "Moradia", !.amount = <<2500>>],
      [NoFields EXCEPT !.action = "updateBudget", !.category = "Lazer", !.amount = <<500>>],
      [NoFields EXCEPT !.action = "deleteBudget", !.category = "Lazer"],
      [NoFields EXCEPT !.action = "answerQuery", !.answer = "Voces gastaram 3000 este mes."],
      [NoFields EXCEPT !.action = "deleteTransaction", !.description = "aluguel"] }

AIResponses ==
    Failures \cup {EmptyObject} \cup (CASE variant = "household" -> HouseholdResponses
                     [] variant = "user" -> UserResponses
                     [] OTHER -> LocalResponses)

\* what the user types: a question, or blanks only
ChatInputs == {"Quanto gastamos?", "  "}

\* the `transactions` prop of Chat
ChatTransactions == IF variant = "user" THEN transactions ELSE allSortedTransactions

\* App.currentUser: the login choice (local), the constant 'Natan' (per-user)
currentUser == IF variant = "local" THEN session ELSE "Natan"

greeting ==
    CASE variant = "household" ->
            "Ola! Sou a Fin, sua assistente financeira. Como posso ajudar?"
      [] variant = "user" -> "Ola! Sou seu assistente financeiro. Como posso ajudar?"
      [] OTHER -> "Ola, " \o currentUser \o "! Sou seu assistente financeiro. Como posso ajudar? Voce pode registrar transacoes, gerenciar metas ou definir tetos de gastos."

aiResponseTextDefault_blank == ""

\* let aiResponseText = ...
aiResponseTextDefault == "Nao consegui entender. Poderia tentar de novo?"

\* the text of the catch block
errorMessage ==
    IF variant = "user" THEN "Desculpe, estou com problemas para me conectar."
    ELSE "Desculpe, estou com problemas para me conectar. Tente novamente mais tarde."

Message(sender, text, req) ==
    [sender |-> sender, text |-> text, isLoading |-> FALSE, req |-> req]

\* prev => [...prev.slice(0, -1), message]
ReplaceLast(prev, message) == SubSeq(prev, 1, Len(prev) - 1) \o <<message>>

\* transactions.find(t => t.description.toLowerCase().includes(description.toLowerCase()))
FindByDescription(txs, description) ==
    LET hits == SelectSeq(txs, LAMBDA t :
                    includes(toLowerCase(t.description), toLowerCase(description)))
    IN  IF hits = <<>> THEN <<>> ELSE <<hits[1]>>

hasRequiredFields_noDescription(response) ==
    CASE response.action = "updateTransaction" -> response.updates # <<>>
      [] response.action = "deleteTransaction" -> TRUE
      [] response.action = "addTransaction" -> TruthyNumber(response.amount)
      [] response.action \in {"addGoal", "updateGoal"} ->
            Truthy(response.name) /\ TruthyNumber(response.amount)
      [] response.action = "deleteGoal" -> Truthy(response.name)
      [] response.action \in {"addBudget", "updateBudget"} ->
            Truthy(response.category) /\ TruthyNumber(response.amount)
      [] response.action = "deleteBudget" -> Truthy(response.category)
      [] response.action = "answerQuery" -> Truthy(response.answer)
      [] OTHER -> FALSE

\* the `if` that guards the body of each case of the handler
hasRequiredFields(response) ==
    CASE response.action = "updateTransaction" ->
            Truthy(response.description) /\ response.updates # <<>>
      [] response.action = "deleteTransaction" -> Truthy(response.description)
      [] response.action = "addTransaction" ->
            TruthyNumber(response.amount) /\ Truthy(response.description)
      [] response.action \in {"addGoal", "updateGoal"} ->
            Truthy(response.name) /\ TruthyNumber(response.amount)
      [] response.action = "deleteGoal" -> Truthy(response.name)
      [] response.action \in {"addBudget", "updateBudget"} ->
            Truthy(response.category) /\ TruthyNumber(response.amount)
      [] response.action = "deleteBudget" -> Truthy(response.category)
      [] response.action = "answerQuery" -> Truthy(response.answer)
      [] OTHER -> FALSE

\* the transaction an addTransaction response describes
newTransaction(response, today) ==
    [description |-> response.description, amount |-> response.amount[1],
     flow |-> IF Truthy(response.flow) THEN response.flow ELSE "expense",
     category |-> IF Truthy(response.category) THEN response.category ELSE "Outros",
     person |-> IF Truthy(response.person) THEN response.person ELSE currentUser,
     date |-> today]

addedText(response) ==
    (IF response.flow = "income" THEN "Receita" ELSE "Despesa") \o " de " \o
    formatCurrency(response.amount[1]) \o " adicionada: " \o response.description \o "."

notFoundText(description) ==
    "Nao encontrei uma transacao recente com a descricao parecida com '" \o
    description \o "'."

\* what a handler does when the model has answered, up to its next await: the
\* reply text, the backend call it starts (writes) and the lists it sets
Unchanged ==
    [next |-> "done", text |-> aiResponseTextDefault, target |-> <<>>, writes |-> <<>>,
     transactions |-> transactions, goals |-> goals, budgets |-> budgets]

\* part_001: switch (responseJson.action)
householdSwitch(req, response) ==
    CASE response.action = "updateTransaction" /\ hasRequiredFields(response) ->
            LET transactionToUpdate ==
                    FindByDescription(req.transactions, response.description)
            IN  IF transactionToUpdate # <<>>
                THEN [Unchanged EXCEPT
                        !.next = "backend", !.target = transactionToUpdate,
                        !.writes = << [table |-> "transactions", op |-> "update",
                                       id |-> transactionToUpdate[1].id,
                                       family_id |-> req.familyId,
                                       updates |-> response.updates[1]] >>]
                ELSE [Unchanged EXCEPT !.text = notFoundText(response.description)]
      [] response.action = "deleteTransaction" /\ hasRequiredFields(response) ->
            LET transactionToDelete ==
                    FindByDescription(req.transactions, response.description)
            IN  IF transactionToDelete # <<>>
                THEN [Unchanged EXCEPT
                        !.next = "backend", !.target = transactionToDelete,
                        !.writes = << [table |-> "transactions", op |-> "delete",
                                       id |-> transactionToDelete[1].id,
                                       family_id |-> req.familyId] >>]
                ELSE [Unchanged EXCEPT !.text = notFoundText(response.description)]
      [] response.action = "answerQuery" /\ hasRequiredFields(response) ->
            [Unchanged EXCEPT !.text = response.answer]
      [] OTHER -> Unchanged

\* part_000: if (action === 'addTransaction' && ...) else if (action === 'answerQuery' && ...)
userSwitch(req, response, today) ==
    CASE response.action = "addTransaction" /\ hasRequiredFields(response) ->
            [Unchanged EXCEPT
                !.next = "backend",
                !.writes = << [table |-> "transactions", op |-> "insert",
                               row |-> newTransaction(response, today),
                               user_id |-> session] >>]
      [] response.action = "answerQuery" /\ hasRequiredFields(response) ->
            [Unchanged EXCEPT !.text = response.answer]
      [] OTHER -> Unchanged

\* index.tsx: switch (responseJson.action), every case sets local state
localSwitch(req, response, today) ==
    CASE response.action = "addTransaction" /\ hasRequiredFields(response) ->
            [Unchanged EXCEPT
                !.transactions =
                    << [id |-> FreshId(Ids(transactions))] @@
                       newTransaction(response, today) >> \o transactions,
                !.text = addedText(response)]
      [] response.action = "addGoal" /\ hasRequiredFields(response) ->
            [Unchanged EXCEPT
                !.goals = goals \o << [id |-> FreshId(Ids(goals)), name |-> response.name,
                                       targetAmount |-> response.amount[1],
                                       currentAmount |-> 0] >>,
                !.text = "Nova meta criada: \"" \o response.name \o
                         "\" com objetivo de " \o formatCurrency(response.amount[1]) \o "."]
      [] response.action = "updateGoal" /\ hasRequiredFields(response) ->
            [Unchanged EXCEPT
                !.goals = [i \in DOMAIN goals |->
                            IF toLowerCase(goals[i].name) = toLowerCase(response.name)
                            THEN [goals[i] EXCEPT !.targetAmount = response.amount[1]]
                            ELSE goals[i]],
                !.text = "Meta \"" \o response.name \o "\" atualizada para " \o
                         formatCurrency(response.amount[1]) \o "."]
      [] response.action = "deleteGoal" /\ hasRequiredFields(response) ->
            [Unchanged EXCEPT
                !.goals = SelectSeq(goals, LAMBDA goal :
                            toLowerCase(goal.name) # toLowerCase(response.name)),
                !.text = "Meta \"" \o response.name \o "\" removida com sucesso."]
      [] response.action \in {"addBudget", "updateBudget"} /\ hasRequiredFields(response) ->
            LET existing == \E i \in DOMAIN req.budgets :
                    toLowerCase(req.budgets[i].category) = toLowerCase(response.category)
            IN  IF existing
                THEN [Unchanged EXCEPT
                        !.budgets = [i \in DOMAIN budgets |->
                            IF toLowerCase(budgets[i].category) = toLowerCase(response.category)
                            THEN [budgets[i] EXCEPT !.amount = response.amount[1]]
                            ELSE budgets[i]],
                        !.text = "Teto de gastos para \"" \o response.category \o
                                 "\" atualizado para " \o
                                 formatCurrency(response.amount[1]) \o "."]
                ELSE [Unchanged EXCEPT
                        !.budgets = budgets \o
                            << [id |-> FreshId(Ids(budgets)), category |-> response.category,
                                amount |-> response.amount[1]] >>,
                        !.text = "Novo teto de gastos para \"" \o response.category \o
                                 "\" definido em " \o
                                 formatCurrency(response.amount[1]) \o "."]
      [] response.action = "deleteBudget" /\ hasRequiredFields(response) ->
            [Unchanged EXCEPT
                !.budgets = SelectSeq(budgets, LAMBDA budget :
                            toLowerCase(budget.category) # toLowerCase(response.category)),
                !.text = "Teto de gastos para \"" \o response.category \o "\" removido."]
      [] response.action = "answerQuery" /\ hasRequiredFields(response) ->
            [Unchanged EXCEPT !.text = response.answer]
      [] OTHER -> Unchanged

writeReply_alwaysOk(req, ok) ==
    LET w == req.writes[1]
    IN  CASE w.op = "update" ->
                "Ok, atualizei a transacao \"" \o req.target[1].description \o "\"."
          [] w.op = "delete" ->
                "Ok, a transacao \"" \o req.target[1].description \o "\" foi excluida."
          [] OTHER -> addedText(req.response[1])

\* aiResponseText after the awaited backend call
writeReply(req, ok) ==
    LET w == req.writes[1]
    IN  CASE w.op = "update" ->
                IF ~ok THEN "Erro ao atualizar a transacao."
                ELSE "Ok, atualizei a transacao \"" \o req.target[1].description \o "\"."
          [] w.op = "delete" ->
                IF ~ok THEN "Erro ao excluir a transacao '" \o
                            req.response[1].description \o "'."
                ELSE "Ok, a transacao \"" \o req.target[1].description \o "\" foi excluida."
          [] OTHER ->
                IF ~ok THEN "Erro ao salvar a transacao." ELSE addedText(req.response[1])

appVars == <<session, fetchPending, familyId, familyMembers, currentDate,
             editingTransaction, editingGoal>>

\* index.tsx: LoginScreen onLogin={setCurrentUser}
onLogin(user) ==
    /\ variant = "local"
    /\ session = Null
    /\ session' = user
    /\ UNCHANGED <<envVars, multiVars, aiVars, themeVars, fetches, calls, chatVars, fetchPending, familyId, familyMembers, transactions,
                   goals, budgets, currentDate, editingTransaction, editingGoal>>

\* part_000: the [session] effect reads the three tables one after the other
FetchDataUser(txRows, goalRows, budgetRows) ==
    /\ variant = "user"
    /\ fetchPending
    /\ session # Null
    /\ fetchPending' = FALSE
    /\ \/ UNCHANGED transactions
       \/ \E rows \in txRows : transactions' = rows
    /\ \/ UNCHANGED goals
       \/ \E rows \in goalRows : goals' = rows
    /\ \/ UNCHANGED budgets
       \/ \E rows \in budgetRows : budgets' = rows
    /\ UNCHANGED <<envVars, multiVars, aiVars, themeVars, fetches, calls, chatVars, session, familyId, familyMembers, currentDate,
                   editingTransaction, editingGoal>>

\* setActiveScreen('chat'): Chat mounts with its greeting
openChat ==
    /\ session # Null
    /\ messages = <<>>
    /\ messages' = << Message("ai", greeting, 0) >>
    /\ UNCHANGED <<envVars, multiVars, aiVars, themeVars, fetches, calls, appVars, transactions, goals, budgets, requests>>

sendRejected_ignoreAi(input) ==
    trim(input) = "" \/ (variant = "household" /\ familyId = Null)

\* if (!input.trim() || !ai || !familyId) return; (the family only in the
\* household variant)
sendRejected(input) ==
    trim(input) = "" \/ ~ai \/ (variant = "household" /\ familyId = Null)

\* handleSendMessage up to its first await
handleSendMessage(input) ==
    /\ messages # <<>>
    /\ ~sendRejected(input)
    /\ Len(requests) < MaxSends
    /\ LET r == Len(requests) + 1
           userMessage    == Message("user", input, r)
           loadingMessage == [sender |-> "ai", text |-> "", isLoading |-> TRUE, req |-> r]
       IN  /\ messages' = messages \o <<userMessage, loadingMessage>>
           /\ requests' = Append(requests,
                            [pc |-> "ai", transactions |-> ChatTransactions,
                             budgets |-> budgets, familyId |-> familyId,
                             response |-> <<>>, target |-> <<>>, writes |-> <<>>,
                             result |-> "none", aiResponseText |-> Null])
    /\ UNCHANGED <<envVars, multiVars, aiVars, themeVars, fetches, calls, appVars, transactions, goals, budgets>>

\* ai.models.generateContent settles for request r: the handler runs to its
\* end, or to the backend call it awaits
generateContentSettles(r, response, today) ==
    /\ r \in DOMAIN requests
    /\ requests[r].pc = "ai"
    /\ IF response.kind # "json"
       THEN \* catch (error)
            /\ messages' = ReplaceLast(messages, Message("system", errorMessage, r))
            /\ requests' = [requests EXCEPT ![r] =
                                [@ EXCEPT !.pc = "done", !.response = <<response>>,
                                          !.aiResponseText = errorMessage]]
            /\ UNCHANGED <<transactions, goals, budgets>>
       ELSE LET out == CASE variant = "household" -> householdSwitch(requests[r], response)
                         [] variant = "user" -> userSwitch(requests[r], response, today)
                         [] OTHER -> localSwitch(requests[r], response, today)
            IN  /\ requests' = [requests EXCEPT ![r] =
                                    [@ EXCEPT !.pc = out.next, !.response = <<response>>,
                                              !.target = out.target, !.writes = out.writes,
                                              !.aiResponseText =
                                                  IF out.next = "done" THEN out.text ELSE @]]
                /\ messages' = IF out.next = "done"
                               THEN ReplaceLast(messages, Message("ai", out.text, r))
                               ELSE messages
                /\ transactions' = out.transactions
                /\ goals' = out.goals
                /\ budgets' = out.budgets
    /\ UNCHANGED <<envVars, multiVars, aiVars, themeVars, fetches, calls, appVars>>

\* the awaited supabase call of request r settles with an error or with data
backendSettles(r, ok) ==
    /\ r \in DOMAIN requests
    /\ requests[r].pc = "backend"
    /\ LET req  == requests[r]
           w    == req.writes[1]
           text == writeReply(req, ok)
       IN  /\ transactions' =
                IF ~ok THEN transactions
                ELSE CASE w.op = "update" ->
                            LET data == << [req.target[1] EXCEPT !.amount = w.updates.amount] >>
                            IN  [i \in DOMAIN transactions |->
                                    IF transactions[i].id = req.target[1].id
                                    THEN data[1] ELSE transactions[i]]
                       [] w.op = "delete" ->
                            SelectSeq(transactions, LAMBDA t : t.id # req.target[1].id)
                       [] OTHER ->
                            LET data == << [id |-> FreshId(Ids(transactions))] @@ w.row >>
                            IN  <<data[1]>> \o transactions
           /\ requests' = [requests EXCEPT ![r] =
                                [@ EXCEPT !.pc = "done",
                                          !.result = IF ok THEN "data" ELSE "error",
                                          !.aiResponseText = text]]
           /\ messages' = ReplaceLast(messages, Message("ai", text, r))
    /\ UNCHANGED <<envVars, multiVars, aiVars, themeVars, fetches, calls, appVars, goals, budgets>>

\* index.tsx: initialTransactions, initialGoals, initialBudgets (ids are
\* opaque keys, numbered here; the app mounts in February 2025)
initialTransactions ==
    << [id |-> 1, person |-> "Natan", category |-> "Salario", flow |-> "income",
        amount |-> 3000, date |-> [yyyy |-> StartYear, mm |-> 2, dd |-> 5],
        description |-> "Salario Mensal"],
       [id |-> 2, person |-> "Jussara", category |-> "Servicos", flow |-> "income",
        amount |-> 300, date |-> [yyyy |-> StartYear, mm |-> 2, dd |-> 10],
        description |-> "Pacote de massagens"],
       [id |-> 3, person |-> "Ambos", category |-> "Moradia", flow |-> "expense",
        amount |-> 2000, date |-> [yyyy |-> StartYear, mm |-> 2, dd |-> 1],
        description |-> "Aluguel"],
       [id |-> 4, person |-> "Jussara", category |-> "Saude", flow |-> "expense",
        amount |-> 120, date |-> [yyyy |-> StartYear, mm |-> 2, dd |-> 5],
        description |-> "Academia"],
       [id |-> 5, person |-> "Natan", category |-> "Alimentacao", flow |-> "expense",
        amount |-> 80, date |-> [yyyy |-> StartYear, mm |-> 2, dd |-> 10],
        description |-> "Mercado"],
       [id |-> 6, person |-> "Natan", category |-> "Salario", flow |-> "income",
        amount |-> 3000, date |-> [yyyy |-> StartYear, mm |-> 1, dd |-> 5],
        description |-> "Salario Mensal"],
       [id |-> 7, person |-> "Ambos", category |-> "Lazer", flow |-> "expense",
        amount |-> 250, date |-> [yyyy |-> StartYear, mm |-> 1, dd |-> 15],
        description |-> "Restaurante"],
       [id |-> 8, person |-> "Jussara", category |-> "Servicos", flow |-> "income",
        amount |-> 75, date |-> [yyyy |-> StartYear, mm |-> 1, dd |-> 20],
        description |-> "Massagem"] >>

initialGoals ==
    << [id |-> 1, name |-> "Viagem de lua de mel", targetAmount |-> 10000,
        currentAmount |-> 4500],
       [id |-> 2, name |-> "Reduzir gastos variaveis", targetAmount |-> 15,
        currentAmount |-> 5] >>

initialBudgets ==
    << [id |-> 1, category |-> "Alimentacao", amount |-> 800],
       [id |-> 2, category |-> "Lazer", amount |-> 400] >>

\* rows the backend may hold when the chat is studied, newest first
StoredTransactionsOfChat ==
    { <<>>,
      << Row(2, [description |-> "Cinema", amount |-> 1000, category |-> "Lazer",
                 person |-> "Jussara", flow |-> "expense"],
             [yyyy |-> 2025, mm |-> 2, dd |-> 15]),
         Row(1, [description |-> "Aluguel", amount |-> 2000, category |-> "Moradia",
                 person |-> "Ambos", flow |-> "expense"],
             [yyyy |-> 2025, mm |-> 2, dd |-> 1]) >> }

Variants == {"local", "user", "household"}

\* the state of App after construction, the theme apart
InitApp ==
    /\ variant \in Variants
    /\ timezoneOffset = 0
    /\ ai \in BOOLEAN
    /\ session = Null
    /\ fetchPending = FALSE
    /\ familyId = Null
    /\ familyMembers = <<>>
    /\ transactions = IF variant = "local" THEN initialTransactions ELSE <<>>
    /\ goals = IF variant = "local" THEN initialGoals ELSE <<>>
    /\ budgets = IF variant = "local" THEN initialBudgets ELSE <<>>
    /\ currentDate \in StartDates
    /\ editingTransaction = <<>>
    /\ editingGoal = <<>>
    /\ messages = <<>>
    /\ requests = <<>>
    /\ calls = <<>>
    /\ aiInsight = ""
    /\ aiSuggestion = ""
    /\ aiCalls = <<>>
    /\ inputText = ""
    /\ parsedTransactions = <<>>
    /\ fetches = <<>>

InitChat == InitApp /\ StartupSettled

NextChat ==
    \/ \E user \in {"Natan", "Jussara"} : onLogin(user)
    \/ SetSession
    \/ FetchData(StoredTransactionsOfChat, {<<>>}, {<<>>})
    \/ FetchDataUser(StoredTransactionsOfChat, {<<>>}, {<<>>})
    \/ openChat
    \/ \E input \in ChatInputs : handleSendMessage(input)
    \/ \E r \in DOMAIN requests, response \in AIResponses, today \in Todays :
          generateContentSettles(r, response, today)
    \/ \E r \in DOMAIN requests, ok \in BOOLEAN : backendSettles(r, ok)

SpecChat == InitChat /\ [][NextChat]_vars

\* ========================================================================
\* Properties of the dashboard (checked under SpecDash)
\* ========================================================================
\* sum of the amounts of the in-memory transactions at the indices in I
RECURSIVE SumAt(_)
SumAt(I) ==
    IF I = {} THEN 0
    ELSE LET i == CHOOSE k \in I : TRUE
         IN  transactions[i].amount + SumAt(I \ {i})

MonthFlow(flow) ==
    {i \in DOMAIN transactions :
        InSelectedMonth(transactions[i]) /\ transactions[i].flow = flow}

Shown == Totals(filteredTransactions)

RECURSIVE Gcd(_, _)
Gcd(a, b) == IF b = 0 THEN a ELSE Gcd(b, a % b)

\* a fraction in lowest terms with a positive denominator
Reduced(num, den) ==
    LET g == Gcd(Abs(num), Abs(den))
        sign == IF den < 0 THEN -1 ELSE 1
    IN  [num |-> sign * (num \div g), den |-> sign * (den \div g)]

\* C1: for the selected month and the in-memory list, the dashboard's net
\* balance is total income minus total expenses, the two totals being the
\* sums of the amounts of the month's income and expense transactions.
C1_NetBalance ==
    /\ Shown.totalIncome = SumAt(MonthFlow("income"))
    /\ Shown.totalExpenses = SumAt(MonthFlow("expense"))
    /\ Shown.netBalance = SumAt(MonthFlow("income")) - SumAt(MonthFlow("expense"))

\* the month shows an income and an expense while another month holds a
\* transaction too
C1_Witness ==
    /\ MonthFlow("income") # {}
    /\ MonthFlow("expense") # {}
    /\ Shown.netBalance = 1000

\* C2: the savings rate is exactly 0 whenever the month's total income is 0,
\* whatever the expenses are; it is shown as 0.0.
C2_ZeroIncomeRate ==
    Shown.totalIncome = 0 =>
        /\ savingsRate(filteredTransactions).num = 0
        /\ savingsRate(filteredTransactions).den # 0
        /\ toFixed1(savingsRate(filteredTransactions)) =
              [negative |-> FALSE, int |-> 0, frac |-> 0]

\* no income, expenses of 2000 or more, a negative balance
C2_Witness ==
    /\ Shown.totalIncome = 0
    /\ Shown.totalExpenses >= 2000
    /\ Shown.netBalance < 0

Orders(n) == {p \in [1..n -> 1..n] : \A i, j \in 1..n : i # j => p[i] # p[j]}

\* C4: whatever the order of the in-memory transaction list, the dashboard
\* shows the same top expense category, name and amount, also when two
\* categories have equal totals.
C4_TopCategoryOrderIndependent ==
    \A p \in Orders(Len(transactions)) :
        topExpenseCategory(FilteredOf([i \in DOMAIN transactions |-> transactions[p[i]]]))
            = topExpenseCategory(filteredTransactions)

\* expected share of person p, in half units
RECURSIVE ShareAt(_, _)
ShareAt(I, p) ==
    IF I = {} THEN 0
    ELSE LET i == CHOOSE k \in I : TRUE
             t == transactions[i]
         IN  (IF t.person = p THEN 2 * t.amount
              ELSE IF t.person = "Ambos" THEN t.amount ELSE 0)
             + ShareAt(I \ {i}, p)

\* C5: in the per-person split an expense tagged 'Ambos' adds half its amount
\* to each of exactly two tracked people and an expense tagged to one tracked
\* person adds its whole amount to that person only; in the household variant
\* (the family members once loaded) and in the two-person variants alike.
C5_PerPersonSplit ==
    LET household == individualExpenses(filteredTransactions, familyMembers)
        couple    == natanJussaraExpenses(filteredTransactions)
    IN  /\ couple.natanExpenses = ShareAt(MonthFlow("expense"), "Natan")
        /\ couple.jussaraExpenses = ShareAt(MonthFlow("expense"), "Jussara")
        /\ familyMembers # <<>> =>
              /\ Cardinality(DOMAIN household) = 2
              /\ \A p \in DOMAIN household :
                    household[p] = ShareAt(MonthFlow("expense"), p)

\* ========================================================================
\* Properties of the budgets screen (checked under SpecBudgets)
\* ========================================================================
MonthCategory(category) ==
    {i \in MonthFlow("expense") : transactions[i].category = category}

\* C6: every budget card shows remaining = limit - the month's expenses of
\* the category; it reads "Excedeu" with |remaining| exactly when spent > limit
\* and "Resta" otherwise, also when spent = limit.
C6_BudgetRemaining ==
    \A k \in DOMAIN budgets :
        LET card  == BudgetCard(filteredTransactions, budgets[k])
            spent == SumAt(MonthCategory(budgets[k].category))
            limit == budgets[k].amount
        IN  /\ card.spent = spent
            /\ card.remaining = limit - spent
            /\ (card.label = "Excedeu") <=> (spent > limit)
            /\ (card.label = "Resta") <=> (spent <= limit)
            /\ card.label = "Excedeu" => card.shown = spent - limit
            /\ card.label = "Resta" => card.shown = limit - spent

\* one budget spent exactly to its limit and another one exceeded
C6_Witness ==
    /\ \E k \in DOMAIN budgets :
          /\ SumAt(MonthCategory(budgets[k].category)) = budgets[k].amount
          /\ BudgetCard(filteredTransactions, budgets[k]).label = "Resta"
    /\ \E k \in DOMAIN budgets :
          /\ SumAt(MonthCategory(budgets[k].category)) > budgets[k].amount
          /\ BudgetCard(filteredTransactions, budgets[k]).label = "Excedeu"

\* ========================================================================
\* Properties of the goals (checked under SpecGoals)
\* ========================================================================
\* C7: the progress shown for a goal is current / target * 100 rounded to the
\* nearest integer, 0 when the target is 0; target 10000 and current 4500
\* show 45.  The goals screen and the dashboard summary show the same.
C7_GoalProgress ==
    /\ \A k \in DOMAIN goals :
          LET goal == goals[k]
              p    == GoalProgress(goal)
          IN  /\ goal.targetAmount = 0 => p = 0
              /\ goal.targetAmount > 0 =>
                    Abs(200 * goal.currentAmount - 2 * p * goal.targetAmount)
                        <= goal.targetAmount
              /\ (goal.targetAmount = 10000 /\ goal.currentAmount = 4500) => p = 45
    /\ \A k \in DOMAIN goalSummary : goalSummary[k] = GoalProgress(goals[k])

\* the goal of the scenario next to a goal whose target is 0
C7_Witness ==
    /\ \E k \in DOMAIN goals :
          goals[k].targetAmount = 10000 /\ goals[k].currentAmount = 4500
    /\ \E k \in DOMAIN goals : goals[k].targetAmount = 0

\* ========================================================================
\* Properties of the chat (checked under SpecChat)
\* ========================================================================
\* the cases the handler of each variant has
HandledBy(v) ==
    CASE v = "household" -> {"updateTransaction", "deleteTransaction", "answerQuery"}
      [] v = "user" -> {"addTransaction", "answerQuery"}
      [] OTHER -> {"addTransaction", "addGoal", "updateGoal", "deleteGoal", "addBudget",
                   "updateBudget", "deleteBudget", "answerQuery"}

ParsedResponse(r) == requests[r].response # <<>> /\ requests[r].response[1].kind = "json"

FallbackMessage(r) ==
    [sender |-> "ai", text |-> "Nao consegui entender. Poderia tentar de novo?",
     isLoading |-> FALSE, req |-> r]

\* request r has got its answer from the model in this step
Answers(r) == requests[r].pc = "ai" /\ requests'[r].pc # "ai"

\* the handler of request r ended without a write and with the fallback text
EndedWithFallback(r) ==
    /\ requests[r].pc = "done"
    /\ requests[r].writes = <<>>
    /\ requests[r].aiResponseText = FallbackMessage(r).text

\* the step appends the fallback message and leaves the three lists alone
AppendsFallbackOnly(r) ==
    /\ messages'[Len(messages')] = FallbackMessage(r)
    /\ <<transactions, goals, budgets>>' = <<transactions, goals, budgets>>

UnknownAction(r) ==
    ParsedResponse(r) /\ requests[r].response[1].action \notin HandledBy(variant)

\* C8: when the action of the response is not one the handler has a case
\* for, the message appended is the fixed fallback text, no backend write is
\* issued and transactions, goals and budgets stay as they are.
C8_UnknownActionFallback ==
    /\ [](\A r \in DOMAIN requests : UnknownAction(r) => EndedWithFallback(r))
    /\ [][\A r \in DOMAIN requests :
            (Answers(r) /\ UnknownAction(r)') => AppendsFallbackOnly(r)]_vars

\* an unknown action was answered and its fallback reply is in the conversation
C8_Witness ==
    \E r \in DOMAIN requests :
        /\ UnknownAction(r)
        /\ requests[r].pc = "done"
        /\ \E k \in DOMAIN messages : messages[k] = FallbackMessage(r)

\* a mutating action of a backend variant whose required fields are all there
ValidMutation(r) ==
    /\ ParsedResponse(r)
    /\ LET response == requests[r].response[1]
       IN  \/ /\ variant = "household"
              /\ \/ /\ response.action = "updateTransaction"
                    /\ response.description # Null
                    /\ response.updates # <<>>
                 \/ /\ response.action = "deleteTransaction"
                    /\ response.description # Null
           \/ /\ variant = "user"
              /\ response.action = "addTransaction"
              /\ response.description # Null
              /\ response.amount # <<>>

WriteOf(action) ==
    CASE action = "updateTransaction" -> "update"
      [] action = "deleteTransaction" -> "delete"
      [] OTHER -> "insert"

OneWrite(r) ==
    /\ Len(requests[r].writes) = 1
    /\ requests[r].writes[1].table = "transactions"
    /\ requests[r].writes[1].op = WriteOf(requests[r].response[1].action)

\* the reply of a finished request tells what became of its write
ReportsOutcome(r) ==
    LET text == requests[r].aiResponseText
        op   == requests[r].writes[1].op
    IN  /\ requests[r].result \in {"error", "data"}
        /\ requests[r].result = "error" =>
              includes(text, "Erro ao ") /\ ~includes(text, "Ok, ")
        /\ requests[r].result = "data" =>
              /\ ~includes(text, "Erro")
              /\ includes(text, CASE op = "update" -> "Ok, atualizei a transacao"
                                  [] op = "delete" -> "foi excluida"
                                  [] OTHER -> " adicionada: ")

\* the list the handler searches holds a transaction whose description
\* contains the given one, letter case aside (an insert needs no target)
HasTarget(r) ==
    \/ variant = "user"
    \/ \E i \in DOMAIN requests[r].transactions :
          includes(toLowerCase(requests[r].transactions[i].description),
                   toLowerCase(requests[r].response[1].description))

MissingRequired(r) ==
    /\ ParsedResponse(r)
    /\ LET response == requests[r].response[1]
       IN  \/ /\ variant = "household"
              /\ response.action = "updateTransaction"
              /\ response.description = Null \/ response.updates = <<>>
           \/ /\ variant = "household"
              /\ response.action = "deleteTransaction"
              /\ response.description = Null
           \/ /\ variant \in {"user", "local"}
              /\ response.action = "addTransaction"
              /\ response.amount = <<>> \/ response.description = Null

\* C10: a known mutating action without a required field (update: the
\* description or the updates; delete: the description; add-transaction: the
\* amount or the description) issues no backend write, leaves the lists as
\* they are and shows the fixed fallback text.
C10_MissingFieldFallback ==
    /\ [](\A r \in DOMAIN requests : MissingRequired(r) => EndedWithFallback(r))
    /\ [][\A r \in DOMAIN requests :
            (Answers(r) /\ MissingRequired(r)') => AppendsFallbackOnly(r)]_vars

\* an update without its description was answered by the fallback
C10_Witness ==
    \E r \in DOMAIN requests :
        /\ MissingRequired(r)
        /\ requests[r].response[1].description = Null
        /\ requests[r].pc = "done"
        /\ \E k \in DOMAIN messages : messages[k] = FallbackMessage(r)

\* the response text of request r was not JSON
Unparsable(r) ==
    requests[r].response # <<>> /\ requests[r].response[1].kind = "unparsable"

\* C11: when the response text cannot be parsed as JSON, the message shown
\* is the fallback text of an unrecognized action and no backend write occurs.
C11_ParseFailureFallback ==
    \A r \in DOMAIN requests :
        Unparsable(r) =>
            /\ requests[r].pc = "done"
            /\ requests[r].writes = <<>>
            /\ requests[r].aiResponseText = FallbackMessage(r).text
            /\ \A k \in DOMAIN messages :
                  (messages[k].req = r /\ messages[k].sender # "user"
                      /\ ~messages[k].isLoading) => messages[k] = FallbackMessage(r)

\* ------------------------------------------------------------------------
\* Specification of the chat lookup: the household chat over a list that is
\* longer than what the prompt shows to the model
\* ------------------------------------------------------------------------
\* transactions.slice(0, 10) of the prompt
PromptSize == 10

LookupDraft(description, category, amount) ==
    [description |-> description, amount |-> amount, category |-> category,
     person |-> "Natan", flow |-> "expense"]

\* eleven rows, newest first: two about the cinema, eight purchases, and the
\* rent as the oldest one
StoredTransactionsOfLookup ==
    { << Row(11, LookupDraft("Cinema 3D", "Lazer", 60), [yyyy |-> 2025, mm |-> 2, dd |-> 20]),
         Row(10, LookupDraft("Cinema", "Lazer", 40), [yyyy |-> 2025, mm |-> 2, dd |-> 19]) >>
      \o [i \in 1..8 |->
            Row(10 - i, LookupDraft("Mercado", "Alimentacao", 80),
                [yyyy |-> 2025, mm |-> 2, dd |-> 19 - i])]
      \o << Row(1, LookupDraft("Aluguel", "Moradia", 2000),
                [yyyy |-> 2025, mm |-> 1, dd |-> 1]) >> }

InitLookup ==
    /\ InitChat
    /\ variant = "household"
    /\ ai = TRUE

NextLookup ==
    \/ SetSession
    \/ FetchData(StoredTransactionsOfLookup, {<<>>}, {<<>>})
    \/ openChat
    \/ \E input \in ChatInputs : handleSendMessage(input)
    \/ \E r \in DOMAIN requests, response \in AIResponses, today \in Todays :
          generateContentSettles(r, response, today)
    \/ \E r \in DOMAIN requests, ok \in BOOLEAN : backendSettles(r, ok)

SpecLookup == InitLookup /\ [][NextLookup]_vars

\* ========================================================================
\* Properties of the chat lookup (checked under SpecLookup)
\* ========================================================================
\* the positions, among the first PromptSize transactions the handler holds,
\* whose description contains the given one, letter case aside
RecentMatches(r) ==
    {i \in DOMAIN requests[r].transactions :
        /\ i <= PromptSize
        /\ includes(toLowerCase(requests[r].transactions[i].description),
                    toLowerCase(requests[r].response[1].description))}

Min(S) == CHOOSE x \in S : \A y \in S : x <= y

\* C12: update and delete by description look the target up among the most
\* recent PromptSize transactions by a case-insensitive substring match; the
\* first match in date-descending order is the one written; without a match
\* no backend write is issued and a not-found reply is shown.
C12_LookupAmongRecent ==
    \A r \in DOMAIN requests :
        (ValidMutation(r) /\ variant = "household") =>
            IF RecentMatches(r) # {}
            THEN /\ OneWrite(r)
                 /\ requests[r].writes[1].id =
                        requests[r].transactions[Min(RecentMatches(r))].id
            ELSE /\ requests[r].pc = "done"
                 /\ requests[r].writes = <<>>
                 /\ includes(requests[r].aiResponseText, "Nao encontrei uma transacao")

\* ------------------------------------------------------------------------
\* The write handlers of the household variant, split at their await: a
\* handler starts its backend call (a record is added to `calls`), other
\* handlers may start or end, and the call settles with an error or with
\* the rows the backend echoes
\* ------------------------------------------------------------------------
MaxWrites == 2      \* how many handlers (forms and chat) reach their await

\* what a handler keeps while it awaits: the call it made (table, op, id of
\* the row for update and delete, rows sent, the family_id it puts in the
\* inserted rows or in the .eq('family_id', familyId) filter) and the lists
\* of its closure
Call(handler, table, op, id, rows) ==
    [handler |-> handler, table |-> table, op |-> op, id |-> id, rows |-> rows,
     family_id |-> familyId, goals |-> goals, budgets |-> budgets,
     pc |-> "backend", result |-> "none", data |-> <<>>, alert |-> Null]

StartCall(call) ==
    /\ session # Null
    /\ Len(calls) + Len(requests) < MaxWrites
    /\ calls' = Append(calls, call)
    /\ UNCHANGED <<envVars, multiVars, aiVars, themeVars, fetches, chatVars, authVars, transactions, goals, budgets, currentDate,
                   editingTransaction, editingGoal>>

\* Transactions.handleAddOrUpdateTransaction up to its await
submitTransaction(draft, today) ==
    /\ familyId # Null
    /\ IF editingTransaction # <<>>
       THEN StartCall(Call("handleAddOrUpdateTransaction", "transactions", "update",
                           editingTransaction[1].id,
                           << Row(editingTransaction[1].id, draft,
                                  editingTransaction[1].date) >>))
       ELSE StartCall(Call("handleAddOrUpdateTransaction", "transactions", "insert", 0,
                           << [description |-> draft.description, amount |-> draft.amount,
                               category |-> draft.category, person |-> draft.person,
                               flow |-> draft.flow, date |-> today] >>))

\* Transactions.handleDeleteTransaction after window.confirm
confirmDeleteTransaction(transactionId) ==
    /\ transactionId \in Ids(transactions)
    /\ StartCall(Call("handleDeleteTransaction", "transactions", "delete",
                      transactionId, <<>>))

handleSubmitAll_noGuard(parsed, today) ==
    StartCall(Call("handleSubmitAll", "transactions", "insert", 0,
                   [i \in DOMAIN parsed |->
                       [description |-> parsed[i].description,
                        amount |-> parsed[i].amount,
                        category |-> parsed[i].category,
                        person |-> parsed[i].person,
                        flow |-> parsed[i].flow, date |-> today]]))

\* MultipleTransactions.handleSubmitAll up to its await (`parsed` is the
\* parsedTransactions of the render)
handleSubmitAll(parsed, today) ==
    /\ ~(Len(parsed) = 0 \/ familyId = Null)
    /\ StartCall(Call("handleSubmitAll", "transactions", "insert", 0,
                      [i \in DOMAIN parsed |->
                          [description |-> parsed[i].description,
                           amount |-> parsed[i].amount,
                           category |-> parsed[i].category,
                           person |-> parsed[i].person,
                           flow |-> parsed[i].flow, date |-> today]]))

\* Goals.handleAddOrUpdateGoal up to its await
submitGoal(name, targetAmount) ==
    /\ familyId # Null
    /\ IF editingGoal # <<>>
       THEN LET stored == SelectSeq(goals, LAMBDA g : g.id = editingGoal[1].id)
            IN  StartCall(Call("handleAddOrUpdateGoal", "goals", "update",
                               editingGoal[1].id,
                               IF stored = <<>> THEN <<>>
                               ELSE << [stored[1] EXCEPT !.name = name,
                                                         !.targetAmount = targetAmount] >>))
       ELSE StartCall(Call("handleAddOrUpdateGoal", "goals", "insert", 0,
                           << [name |-> name, targetAmount |-> targetAmount,
                               currentAmount |-> 0] >>))

\* Goals.handleDeleteGoal after window.confirm
confirmDeleteGoal(goalId) ==
    /\ goalId \in Ids(goals)
    /\ StartCall(Call("handleDeleteGoal", "goals", "delete", goalId, <<>>))

\* Budgets.addBudget up to its await
submitBudget(category, amount) ==
    /\ familyId # Null
    /\ LET existingBudget == FindBudget(category)
       IN  IF existingBudget # <<>>
           THEN StartCall(Call("addBudget", "budgets", "update", existingBudget[1].id,
                               << [existingBudget[1] EXCEPT !.amount = amount] >>))
           ELSE StartCall(Call("addBudget", "budgets", "insert", 0,
                               << [category |-> category, amount |-> amount] >>))

\* Budgets.handleDeleteBudget after window.confirm
confirmDeleteBudget(budgetId) ==
    /\ budgetId \in Ids(budgets)
    /\ StartCall(Call("handleDeleteBudget", "budgets", "delete", budgetId, <<>>))

RECURSIVE MaxOf(_)
MaxOf(S) == IF S = {} THEN 0 ELSE LET x == CHOOSE x \in S : TRUE
                                  IN  LET m == MaxOf(S \ {x}) IN IF x > m THEN x ELSE m

\* the ids the backend has given out so far, as far as the client has seen
KnownIds ==
    Ids(transactions) \cup Ids(goals) \cup Ids(budgets)
    \cup UNION {Ids(calls[k].data) \cup Ids(calls[k].goals) \cup Ids(calls[k].budgets)
                    \cup {calls[k].id} : k \in DOMAIN calls}
    \cup UNION {Ids(requests[r].transactions) : r \in DOMAIN requests}

\* .select() after a successful write: the rows written, new rows with the
\* ids the backend gives them
EchoedRows(call) ==
    CASE call.op = "insert" ->
            [i \in DOMAIN call.rows |-> [id |-> MaxOf(KnownIds) + i] @@ call.rows[i]]
      [] call.op = "update" -> call.rows
      [] OTHER -> <<>>

\* an element that is not a row: what data[0] is when the backend echoes no
\* row
undefined == [undefined |-> TRUE]

\* data[0]
First(data) == IF data = <<>> THEN undefined ELSE data[1]

settleLists_ignoreError(call, ok, data) ==
    LET same == [transactions |-> transactions, goals |-> goals, budgets |-> budgets]
    IN  CASE call.table = "transactions" /\ call.op = "delete" ->
                [same EXCEPT !.transactions =
                    SelectSeq(transactions, LAMBDA t : t.id # call.id)]
          [] call.table = "goals" /\ call.op = "delete" ->
                [same EXCEPT !.goals = SelectSeq(call.goals, LAMBDA g : g.id # call.id)]
          [] call.table = "budgets" /\ call.op = "delete" ->
                [same EXCEPT !.budgets = SelectSeq(call.budgets, LAMBDA b : b.id # call.id)]
          [] OTHER -> same

\* the state setters a handler calls once its backend call has settled
settleLists(call, ok, data) ==
    LET same == [transactions |-> transactions, goals |-> goals, budgets |-> budgets]
    IN  IF ~ok THEN same
        ELSE CASE call.table = "transactions" /\ call.op = "update" ->
                    \* setTransactions(prev => prev.map(...))
                    [same EXCEPT !.transactions =
                        [i \in DOMAIN transactions |->
                            IF transactions[i].id = call.id THEN First(data)
                            ELSE transactions[i]]]
               [] call.table = "transactions" /\ call.op = "insert" ->
                    \* setTransactions(prev => [...data, ...prev])
                    [same EXCEPT !.transactions = data \o transactions]
               [] call.table = "transactions" /\ call.op = "delete" ->
                    [same EXCEPT !.transactions =
                        SelectSeq(transactions, LAMBDA t : t.id # call.id)]
               [] call.table = "goals" /\ call.op = "update" ->
                    \* setGoals(goals.map(...)): the goals of the closure
                    [same EXCEPT !.goals =
                        [i \in DOMAIN call.goals |->
                            IF call.goals[i].id = call.id THEN First(data)
                            ELSE call.goals[i]]]
               [] call.table = "goals" /\ call.op = "insert" ->
                    \* setGoals(prev => [...prev, data[0]])
                    [same EXCEPT !.goals = goals \o <<First(data)>>]
               [] call.table = "goals" /\ call.op = "delete" ->
                    \* setGoals(goals.filter(...)): the goals of the closure
                    [same EXCEPT !.goals =
                        SelectSeq(call.goals, LAMBDA g : g.id # call.id)]
               [] call.table = "budgets" /\ call.op = "update" ->
                    \* setBudgets(budgets.map(...)): the budgets of the closure
                    [same EXCEPT !.budgets =
                        [i \in DOMAIN call.budgets |->
                            IF call.budgets[i].id = call.id THEN First(data)
                            ELSE call.budgets[i]]]
               [] call.table = "budgets" /\ call.op = "insert" ->
                    \* setBudgets([...budgets, data[0]]): the budgets of the closure
                    [same EXCEPT !.budgets = call.budgets \o <<First(data)>>]
               [] OTHER ->
                    \* setBudgets(budgets.filter(...)): the budgets of the closure
                    [same EXCEPT !.budgets =
                        SelectSeq(call.budgets, LAMBDA b : b.id # call.id)]

\* the text of the window.alert the handler shows after its call, Null for none
alertText(call, ok, data) ==
    CASE call.handler = "handleAddOrUpdateTransaction" /\ call.op = "update" ->
            IF ~ok THEN "Erro ao atualizar a transacao."
            ELSE "Transacao atualizada com sucesso!"
      [] call.handler = "handleAddOrUpdateTransaction" /\ call.op = "insert" ->
            IF ~ok THEN "Erro ao adicionar transacao." ELSE Null
      [] call.handler = "handleDeleteTransaction" ->
            IF ~ok THEN "Erro ao excluir o lancamento." ELSE Null
      [] call.handler = "handleSubmitAll" ->
            IF ~ok THEN "Erro ao salvar as despesas."
            ELSE ToString(Len(data)) \o " despesas salvas com sucesso!"
      [] OTHER -> Null

\* the continuation of the k-th handler once its backend call has answered
\* with an error (~ok) or with the rows `data`
settleCall(k, ok, data) ==
    /\ k \in DOMAIN calls
    /\ calls[k].pc = "backend"
    /\ LET call == calls[k]
           new  == settleLists(call, ok, data)
       IN  /\ transactions' = new.transactions
           /\ goals' = new.goals
           /\ budgets' = new.budgets
           /\ calls' = [calls EXCEPT ![k] =
                            [@ EXCEPT !.pc = "done",
                                      !.result = IF ok THEN "data" ELSE "error",
                                      !.data = data,
                                      !.alert = alertText(call, ok, data)]]
           /\ editingTransaction' =
                IF ok /\ call.handler = "handleAddOrUpdateTransaction" /\ call.op = "update"
                THEN <<>> ELSE editingTransaction
           /\ editingGoal' =
                IF ok /\ call.handler = "handleAddOrUpdateGoal" /\ call.op = "update"
                THEN <<>> ELSE editingGoal
           \* setInputText(''); setParsedTransactions([]);
           /\ inputText' = IF ok /\ call.handler = "handleSubmitAll" THEN "" ELSE inputText
           /\ parsedTransactions' =
                IF ok /\ call.handler = "handleSubmitAll" THEN <<>> ELSE parsedTransactions
    /\ UNCHANGED <<envVars, aiVars, themeVars, fetches, chatVars, authVars, currentDate>>

\* the backend call of the k-th handler settles and the handler runs to its
\* end: an error, or the rows written are echoed
backendCallSettles(k, ok) ==
    /\ k \in DOMAIN calls
    /\ settleCall(k, ok, IF ok THEN EchoedRows(calls[k]) ELSE <<>>)

\* an update whose row is no longer in the table (the other member of the
\* household has deleted it) succeeds and echoes no row
backendCallSettlesEmpty(k) ==
    /\ k \in DOMAIN calls
    /\ calls[k].op = "update"
    /\ settleCall(k, TRUE, <<>>)

\* inputs of the split handlers
WriteDrafts ==
    { [description |-> "Cinema", amount |-> 1000, category |-> "Lazer",
       person |-> "Jussara", flow |-> "expense"] }

WriteToday == [yyyy |-> 2025, mm |-> 2, dd |-> 15]

\* MultipleTransactions.parsedTransactions after handleParseText
ParsedLists ==
    { << [description |-> "Padaria", amount |-> 20, category |-> "Outros",
          person |-> "Ambos", flow |-> "expense"],
         [description |-> "Farmacia", amount |-> 35, category |-> "Outros",
          person |-> "Ambos", flow |-> "expense"] >> }

StoredTransactionsOfWrites ==
    { << Row(1, [description |-> "Aluguel", amount |-> 2000, category |-> "Moradia",
                 person |-> "Ambos", flow |-> "expense"],
             [yyyy |-> 2025, mm |-> 2, dd |-> 1]) >> }

StoredGoalsOfWrites ==
    { << [id |-> 1, name |-> "Reserva", targetAmount |-> 3, currentAmount |-> 2] >> }

\* the one answer of the model studied with the forms: an update of the rent
WriteResponses ==
    { [NoFields EXCEPT !.action = "updateTransaction", !.description = "aluguel",
                       !.updates = << [amount |-> 1000] >>] }

InitWrites ==
    /\ InitChat
    /\ variant = "household"
    /\ ai = TRUE

NextWrites ==
    \/ SetSession
    \/ FetchData(StoredTransactionsOfWrites, StoredGoalsOfWrites, {<<>>})
    \/ \E i \in DOMAIN transactions : handleSetEditing(transactions[i])
    \/ \E i \in DOMAIN goals : setEditingGoal(goals[i])
    \/ \E draft \in WriteDrafts : submitTransaction(draft, WriteToday)
    \/ \E i \in DOMAIN transactions : confirmDeleteTransaction(transactions[i].id)
    \/ \E parsed \in ParsedLists : handleSubmitAll(parsed, WriteToday)
    \/ \E name \in GoalNames : submitGoal(name, 10000)
    \/ \E i \in DOMAIN goals : confirmDeleteGoal(goals[i].id)
    \/ \E category \in BudgetCategories : submitBudget(category, 1000)
    \/ \E i \in DOMAIN budgets : confirmDeleteBudget(budgets[i].id)
    \/ \E k \in DOMAIN calls, ok \in BOOLEAN : backendCallSettles(k, ok)
    \/ openChat
    \/ /\ Len(calls) + Len(requests) < MaxWrites
       /\ handleSendMessage("Mude o aluguel para 1000")
    \/ \E r \in DOMAIN requests, response \in WriteResponses :
          generateContentSettles(r, response, WriteToday)
    \/ \E r \in DOMAIN requests, ok \in BOOLEAN : backendSettles(r, ok)

SpecWrites == InitWrites /\ [][NextWrites]_vars

\* ------------------------------------------------------------------------
\* Properties of the write handlers (SpecWrites)
\* ------------------------------------------------------------------------
lists == <<transactions, goals, budgets>>

\* the step in which the k-th form handler learns that its write failed
CallFails(k) ==
    /\ calls[k].pc = "backend"
    /\ calls'[k].pc = "done"
    /\ calls'[k].result = "error"

\* the step in which the chat handler of request r learns that its write failed
RequestWriteFails(r) ==
    /\ requests[r].pc = "backend"
    /\ requests'[r].pc = "done"
    /\ requests'[r].result = "error"

\* C13: a backend write that returns an error (insert, update or delete on
\* transactions, goals or budgets, issued by a form, by the multi-add screen
\* or by the chat) changes none of the in-memory lists: the handler that
\* receives the error ends with transactions, goals and budgets as they were.
C13_FailedWriteKeepsLists ==
    [][ /\ \A k \in DOMAIN calls : CallFails(k) => UNCHANGED lists
        /\ \A r \in DOMAIN requests : RequestWriteFails(r) => UNCHANGED lists ]_vars

\* a goal delete was refused and the goal is still listed, and an update
\* asked for in the chat was refused as well
C13_Witness ==
    /\ \E k \in DOMAIN calls :
          /\ calls[k].pc = "done" /\ calls[k].result = "error"
          /\ calls[k].table = "goals" /\ calls[k].op = "delete"
          /\ calls[k].id \in Ids(goals)
    /\ \E r \in DOMAIN requests :
          /\ requests[r].pc = "done" /\ requests[r].result = "error"
          /\ requests[r].writes # <<>>

\* C14: every backend write failure is brought to the user's notice: a form
\* handler whose write returned an error has shown an alert, and the chat
\* whose write returned an error has put a reply saying so in the
\* conversation; no failure is only logged.
C14_FailuresSurfaced ==
    /\ \A k \in DOMAIN calls :
          (calls[k].pc = "done" /\ calls[k].result = "error") => calls[k].alert # Null
    /\ \A r \in DOMAIN requests :
          (requests[r].pc = "done" /\ requests[r].result = "error") =>
              includes(requests[r].aiResponseText, "Erro ao ")

PendingCall(k) == calls[k].pc = "backend"

PendingRequestWrite(r) == requests[r].pc = "backend" /\ requests[r].writes # <<>>

\* C15: from one client, two backend writes to the same record are never in
\* flight at the same time: no two pending form calls update or delete the
\* same row, no two pending budget saves are for the same category, and a
\* pending chat update or delete is for a row no pending form call and no
\* other pending chat write is for.
C15_NoOverlappingWrites ==
    /\ \A j, k \in DOMAIN calls :
          (j # k /\ PendingCall(j) /\ PendingCall(k) /\ calls[j].table = calls[k].table
               /\ calls[j].op # "insert" /\ calls[k].op # "insert")
          => calls[j].id # calls[k].id
    /\ \A j, k \in DOMAIN calls :
          (j # k /\ PendingCall(j) /\ PendingCall(k)
               /\ calls[j].table = "budgets" /\ calls[k].table = "budgets"
               /\ calls[j].op = "insert" /\ calls[k].op = "insert")
          => calls[j].rows[1].category # calls[k].rows[1].category
    /\ \A k \in DOMAIN calls, r \in DOMAIN requests :
          (PendingCall(k) /\ PendingRequestWrite(r) /\ calls[k].table = "transactions"
               /\ calls[k].op # "insert" /\ requests[r].writes[1].op # "insert")
          => calls[k].id # requests[r].writes[1].id
    /\ \A q, r \in DOMAIN requests :
          (q # r /\ PendingRequestWrite(q) /\ PendingRequestWrite(r)
               /\ requests[q].writes[1].op # "insert" /\ requests[r].writes[1].op # "insert")
          => requests[q].writes[1].id # requests[r].writes[1].id

\* ------------------------------------------------------------------------
\* App: the session effect and fetchData, split at the awaits of fetchData
\* (household and per-user variants)
\* ------------------------------------------------------------------------
MaxFetches == 2     \* how many non-null sessions are delivered

NoRead == [transactions |-> <<>>, goals |-> <<>>, budgets |-> <<>>]

\* one run of fetchData: the read it awaits (pc) and, per table, the rows a
\* successful read returned (<<>> before the read and after a failed one)
Fetch(s) ==
    [session |-> s, pc |-> IF variant = "household" THEN "profile" ELSE "transactions",
     read |-> NoRead]

\* a session object no earlier delivery has used
NewSession == "session" \o ToString(Len(fetches) + 1)

\* getSession().then(...) or onAuthStateChange(...): setSession(session), and
\* the [session] effect that follows runs fetchData to its first await
sessionDelivered(newSession) ==
    /\ variant # "local"
    /\ ~(newSession = Null /\ session = Null)
    /\ session' = newSession
    /\ IF newSession # Null
       THEN /\ Len(fetches) < MaxFetches
            /\ fetches' = Append(fetches, Fetch(newSession))
       ELSE UNCHANGED fetches
    /\ UNCHANGED <<envVars, multiVars, aiVars, themeVars, chatVars, calls, fetchPending, familyId, familyMembers,
                   transactions, goals, budgets, currentDate, editingTransaction,
                   editingGoal>>

\* App.handleLogout: signOut delivers a null session, then the lists are
\* emptied (the per-user variant holds no family, the household variant
\* resets it)
handleLogout ==
    /\ variant # "local"
    /\ session # Null
    /\ session' = Null
    /\ transactions' = <<>>
    /\ goals' = <<>>
    /\ budgets' = <<>>
    /\ familyId' = Null
    /\ familyMembers' = <<>>
    /\ UNCHANGED <<envVars, multiVars, aiVars, themeVars, chatVars, calls, fetches, fetchPending, currentDate,
                   editingTransaction, editingGoal>>

setFetched_keep(current, ok, data) == current

\* if (error) console.error(...); else setX(data || [])
setFetched(current, ok, data) == IF ok THEN data ELSE current

\* the read of the user's profile settles
profileSettles(f, ok) ==
    /\ f \in DOMAIN fetches
    /\ fetches[f].pc = "profile"
    /\ IF ok
       THEN /\ familyId' = "family"
            /\ fetches' = [fetches EXCEPT ![f].pc = "members"]
       ELSE /\ UNCHANGED familyId
            /\ fetches' = [fetches EXCEPT ![f].pc = "done"]
    /\ UNCHANGED <<envVars, multiVars, aiVars, themeVars, chatVars, calls, session, fetchPending, familyMembers,
                   transactions, goals, budgets, currentDate, editingTransaction,
                   editingGoal>>

\* the read of the family's profiles settles
membersSettles(f, ok) ==
    /\ f \in DOMAIN fetches
    /\ fetches[f].pc = "members"
    /\ familyMembers' = setFetched(familyMembers, ok, Members)
    /\ fetches' = [fetches EXCEPT ![f].pc = "transactions"]
    /\ UNCHANGED <<envVars, multiVars, aiVars, themeVars, chatVars, calls, session, fetchPending, familyId,
                   transactions, goals, budgets, currentDate, editingTransaction,
                   editingGoal>>

\* the read of the transactions settles
transactionsSettles(f, ok, data) ==
    /\ f \in DOMAIN fetches
    /\ fetches[f].pc = "transactions"
    /\ transactions' = setFetched(transactions, ok, data)
    /\ fetches' = [fetches EXCEPT ![f].pc = "goals",
                                  ![f].read.transactions = IF ok THEN <<data>> ELSE <<>>]
    /\ UNCHANGED <<envVars, multiVars, aiVars, themeVars, chatVars, calls, authVars, goals, budgets, currentDate,
                   editingTransaction, editingGoal>>

\* the read of the goals settles
goalsSettles(f, ok, data) ==
    /\ f \in DOMAIN fetches
    /\ fetches[f].pc = "goals"
    /\ goals' = setFetched(goals, ok, data)
    /\ fetches' = [fetches EXCEPT ![f].pc = "budgets",
                                  ![f].read.goals = IF ok THEN <<data>> ELSE <<>>]
    /\ UNCHANGED <<envVars, multiVars, aiVars, themeVars, chatVars, calls, authVars, transactions, budgets,
                   currentDate, editingTransaction, editingGoal>>

\* the read of the budgets settles and fetchData ends
budgetsSettles(f, ok, data) ==
    /\ f \in DOMAIN fetches
    /\ fetches[f].pc = "budgets"
    /\ budgets' = setFetched(budgets, ok, data)
    /\ fetches' = [fetches EXCEPT ![f].pc = "done",
                                  ![f].read.budgets = IF ok THEN <<data>> ELSE <<>>]
    /\ UNCHANGED <<envVars, multiVars, aiVars, themeVars, chatVars, calls, authVars, transactions, goals,
                   currentDate, editingTransaction, editingGoal>>

\* the next read of the f-th fetchData settles
fetchStep(f) ==
    \/ \E ok \in BOOLEAN : profileSettles(f, ok)
    \/ \E ok \in BOOLEAN : membersSettles(f, ok)
    \/ \E ok \in BOOLEAN, data \in StoredTransactionsOfWrites :
          transactionsSettles(f, ok, data)
    \/ \E ok \in BOOLEAN, data \in StoredGoalsOfWrites : goalsSettles(f, ok, data)
    \/ \E ok \in BOOLEAN, data \in StoredBudgets : budgetsSettles(f, ok, data)

FetchIds == 1..MaxFetches

InitFetch ==
    /\ InitChat
    /\ variant \in {"household", "user"}
    /\ ai = TRUE

NextFetch ==
    \/ \E newSession \in {Null, NewSession} : sessionDelivered(newSession)
    \/ handleLogout
    \/ \E f \in FetchIds : fetchStep(f)

SpecFetch == InitFetch /\ [][NextFetch]_vars

\* every awaited read settles, with data or with an error, and the event
\* loop runs the continuation of fetchData
SpecFetchLive == SpecFetch /\ \A f \in FetchIds : WF_vars(fetchStep(f))

\* ------------------------------------------------------------------------
\* Properties of the session effect and fetchData (SpecFetchLive)
\* ------------------------------------------------------------------------
\* the read of `table` by the f-th fetchData is over
ReadOver(f, table) ==
    CASE table = "transactions" -> fetches[f].pc \in {"goals", "budgets", "done"}
      [] table = "goals" -> fetches[f].pc \in {"budgets", "done"}
      [] OTHER -> fetches[f].pc = "done"

\* the f-th fetchData ended without the rows of `table`: the profile read or
\* the read of the table failed
ReadFailed(f, table) ==
    /\ f \in DOMAIN fetches
    /\ ReadOver(f, table)
    /\ fetches[f].read[table] = <<>>

\* the in-memory list is the rows the f-th fetchData read
Loaded(f, table, list) ==
    /\ f \in DOMAIN fetches
    /\ fetches[f].read[table] # <<>>
    /\ list = fetches[f].read[table][1]

\* the step in which the f-th fetchData learns the outcome of its read of
\* `table` (also the failed profile read, which ends fetchData)
ReadSettles(f, table) == f \in DOMAIN fetches /\ ~ReadOver(f, table) /\ ReadOver(f, table)'

FetchDone(f) == f \in DOMAIN fetches /\ fetches[f].pc = "done"

\* C16: whenever a session becomes available a fetch of the household's data
\* is started for it; every fetch started runs to its end; and when one of
\* its reads (transactions, goals, budgets) settles, either the read (or the
\* profile read before it) failed or the in-memory list equals the rows
\* that were read.
C16_SessionLoadsData ==
    /\ [](session # Null => \E f \in DOMAIN fetches : fetches[f].session = session)
    /\ [][ \A f \in FetchIds :
              /\ ReadSettles(f, "transactions") =>
                    (ReadFailed(f, "transactions") \/ Loaded(f, "transactions", transactions))'
              /\ ReadSettles(f, "goals") =>
                    (ReadFailed(f, "goals") \/ Loaded(f, "goals", goals))'
              /\ ReadSettles(f, "budgets") =>
                    (ReadFailed(f, "budgets") \/ Loaded(f, "budgets", budgets))' ]_vars
    /\ \A f \in FetchIds : (f \in DOMAIN fetches) ~> FetchDone(f)

\* a second session arrived while the fetch of the first was under way, and
\* the second fetch has loaded rows into all three lists
C16_Witness ==
    /\ Len(fetches) = 2
    /\ fetches[2].pc = "done"
    /\ session = fetches[2].session
    /\ Loaded(2, "transactions", transactions) /\ transactions # <<>>
    /\ Loaded(2, "goals", goals) /\ goals # <<>>
    /\ Loaded(2, "budgets", budgets) /\ budgets # <<>>
    /\ fetches[1].pc = "done"
    /\ fetches[1].read.budgets = << <<>> >>

\* ------------------------------------------------------------------------
\* App: the theme (all three variants hold the same two effects)
\* ------------------------------------------------------------------------
Themes == {"light", "dark"}

\* savedTheme || (prefersDark ? 'dark' : 'light')
initialTheme(savedTheme, prefersDark) ==
    IF savedTheme # Null THEN savedTheme
    ELSE IF prefersDark THEN "dark" ELSE "light"

\* the two effects as the mount runs them, one after the other, with the
\* theme of the first render: the [] effect queues setTheme(initialTheme),
\* the [theme] effect writes the rendered theme to localStorage
RunMountEffects(next) ==
    /\ startup' = [startup EXCEPT
                     !.pc = next,
                     !.queue = Append(@, initialTheme(storage, startup.prefersDark))]
    /\ storage' = theme
    /\ UNCHANGED <<envVars, multiVars, aiVars, chatVars, calls, fetches, appVars, transactions, goals, budgets,
                   theme>>

\* the passive effects of the mount
mountEffects ==
    /\ startup.pc = "mount"
    /\ RunMountEffects(IF startup.strict THEN "remount" ELSE "render")

\* React.StrictMode (development build): the effects of the mount are run a
\* second time before the queued state updates are processed
strictRemount ==
    /\ startup.pc = "remount"
    /\ RunMountEffects("render")

\* the queued setTheme calls are processed in order and App renders again
renderQueued ==
    /\ startup.pc = "render"
    /\ theme' = startup.queue[Len(startup.queue)]
    /\ startup' = [startup EXCEPT !.queue = <<>>,
                                  !.pc = IF theme' # theme THEN "effect" ELSE "settled"]
    /\ UNCHANGED <<envVars, multiVars, aiVars, chatVars, calls, fetches, appVars, transactions, goals, budgets,
                   storage>>

\* the [theme] effect after a render that changed the theme
themeEffect ==
    /\ startup.pc = "effect"
    /\ storage' = theme
    /\ startup' = [startup EXCEPT !.pc = "settled"]
    /\ UNCHANGED <<envVars, multiVars, aiVars, chatVars, calls, fetches, appVars, transactions, goals, budgets,
                   theme>>

\* toggleTheme, the render and the [theme] effect that follow it
toggleTheme ==
    /\ startup.pc = "settled"
    /\ theme' = IF theme = "light" THEN "dark" ELSE "light"
    /\ storage' = theme'
    /\ UNCHANGED <<envVars, multiVars, aiVars, chatVars, calls, fetches, appVars, transactions, goals, budgets,
                   startup>>

\* a page load: the stored flag, the preference of the device and the build
InitTheme ==
    /\ InitApp
    /\ fetches = <<>>
    /\ theme = "light"
    /\ storage \in Themes \cup {Null}
    /\ \E strict \in BOOLEAN, prefersDark \in BOOLEAN :
          startup = [pc |-> "mount", strict |-> strict, prefersDark |-> prefersDark,
                     savedTheme |-> storage, queue |-> <<>>]

NextTheme ==
    \/ mountEffects
    \/ strictRemount
    \/ renderQueued
    \/ themeEffect
    \/ toggleTheme

SpecTheme == InitTheme /\ [][NextTheme]_vars

\* ------------------------------------------------------------------------
\* Properties of the theme (SpecTheme)
\* ------------------------------------------------------------------------
\* the step in which the startup effects settle
StartupSettles == startup.pc # "settled" /\ startup'.pc = "settled"

\* C17: once the startup effects have settled, also when the mount effects
\* ran twice under React.StrictMode, the active theme is the flag that was
\* stored before startup when there was one and the preference of the device
\* otherwise, and a flag that was stored as 'dark' is still 'dark'.
C17_ThemeRestored ==
    [][ StartupSettles =>
          /\ theme' = initialTheme(startup.savedTheme, startup.prefersDark)
          /\ startup.savedTheme = "dark" => storage' = "dark" ]_vars

\* ------------------------------------------------------------------------
\* Reports and Goals: the insight and the suggestion asked of the model
\* ------------------------------------------------------------------------
MaxInsights == 2    \* how many generateContent calls Reports and Goals make

\* Reports.isLoading, Goals.isLoading: between setIsLoading(true) and finally
isLoading(handler) ==
    \E k \in DOMAIN aiCalls : aiCalls[k].handler = handler /\ aiCalls[k].pc = "ai"

\* Reports.handleGenerateInsight up to its await; Reports is given the
\* transactions of the selected month
handleGenerateInsight ==
    /\ session # Null
    /\ IF ~ai \/ Len(filteredTransactions) = 0
       THEN /\ aiInsight' = "Adicione transacoes neste mes para receber insights."
            /\ UNCHANGED aiCalls
       ELSE /\ ~isLoading("handleGenerateInsight")
            /\ Len(aiCalls) < MaxInsights
            /\ aiInsight' = ""
            /\ aiCalls' = Append(aiCalls, [handler |-> "handleGenerateInsight", pc |-> "ai"])
    /\ UNCHANGED <<envVars, multiVars, themeVars, fetches, calls, chatVars, appVars, transactions, goals,
                   budgets, aiSuggestion>>

\* Goals.handleGenerateSuggestion up to its await
handleGenerateSuggestion ==
    /\ session # Null
    /\ IF ~ai \/ Len(goals) = 0
       THEN /\ aiSuggestion' = "Adicione metas para receber sugestoes."
            /\ UNCHANGED aiCalls
       ELSE /\ ~isLoading("handleGenerateSuggestion")
            /\ Len(aiCalls) < MaxInsights
            /\ aiSuggestion' = ""
            /\ aiCalls' = Append(aiCalls,
                                 [handler |-> "handleGenerateSuggestion", pc |-> "ai"])
    /\ UNCHANGED <<envVars, multiVars, themeVars, fetches, calls, chatVars, appVars, transactions, goals,
                   budgets, aiInsight>>

\* what generateContent resolves with for an insight or a suggestion; Null
\* stands for a rejected call
InsightTexts == {Null, " Gastem menos com lazer. "}

\* generateContent settles for the k-th call: try / catch / finally
aiCallSettles(k, text) ==
    /\ k \in DOMAIN aiCalls
    /\ aiCalls[k].pc = "ai"
    /\ aiCalls' = [aiCalls EXCEPT ![k].pc = "done"]
    /\ IF aiCalls[k].handler = "handleGenerateInsight"
       THEN /\ aiInsight' = IF text = Null
                            THEN "Nao foi possivel gerar um insight no momento."
                            ELSE trim(text)
            /\ UNCHANGED aiSuggestion
       ELSE /\ aiSuggestion' = IF text = Null
                               THEN "Nao foi possivel gerar uma sugestao no momento."
                               ELSE trim(text)
            /\ UNCHANGED aiInsight
    /\ UNCHANGED <<envVars, multiVars, themeVars, fetches, calls, chatVars, appVars, transactions, goals,
                   budgets>>

\* the answers of the model studied with the AI features: a rejected call
\* and an update of the rent
FeatureResponses == { [NoFields EXCEPT !.kind = "rejected"] } \cup WriteResponses

NextAI ==
    \/ \E user \in {"Natan"} : onLogin(user)
    \/ SetSession
    \/ FetchData(StoredTransactionsOfWrites, StoredGoalsOfWrites, {<<>>})
    \/ FetchDataUser(StoredTransactionsOfWrites, StoredGoalsOfWrites, {<<>>})
    \/ openChat
    \/ \E input \in ChatInputs : handleSendMessage(input)
    \/ \E r \in DOMAIN requests, response \in FeatureResponses :
          generateContentSettles(r, response, WriteToday)
    \/ \E r \in DOMAIN requests, ok \in BOOLEAN : backendSettles(r, ok)
    \/ handleGenerateInsight
    \/ handleGenerateSuggestion
    \/ \E k \in DOMAIN aiCalls, text \in InsightTexts : aiCallSettles(k, text)

SpecAI == InitChat /\ [][NextAI]_vars

\* ------------------------------------------------------------------------
\* Properties of the AI features (SpecAI)
\* ------------------------------------------------------------------------
\* C18: when the AI client is not available, the chat holds nothing but its
\* greeting whatever is submitted, no request to the model and no backend
\* write is made for the chat, and the insight and suggestion handlers make
\* no call to the model.
C18_NoClientNoCalls ==
    ~ai => /\ requests = <<>>
           /\ messages \in {<<>>, <<Message("ai", greeting, 0)>>}
           /\ aiCalls = <<>>
    /\ inputText = ""
    /\ parsedTransactions = <<>>
           /\ calls = <<>>

\* without a client, signed in to a household with its data loaded and the
\* chat open, both handlers have been asked and have answered with their
\* hint
C18_Witness ==
    /\ ~ai
    /\ variant = "household"
    /\ familyId # Null
    /\ messages # <<>>
    /\ Len(filteredTransactions) > 0
    /\ Len(goals) > 0
    /\ aiInsight = "Adicione transacoes neste mes para receber insights."
    /\ aiSuggestion = "Adicione metas para receber sugestoes."

\* ------------------------------------------------------------------------
\* Properties of the chat when the call to the model fails (SpecChat)
\* ------------------------------------------------------------------------
\* the step in which the handler of request r learns that generateContent
\* was rejected
AiCallFails(r) ==
    /\ requests[r].pc = "ai"
    /\ requests'[r].response # <<>>
    /\ requests'[r].response[1].kind = "rejected"

\* C19: when the call to the model for a chat message fails, the loading
\* placeholder of that message, and no other message, is replaced by one
\* message with sender 'system'; no backend write is issued, the in-memory
\* lists stay as they are, and no further call to the model is made for the
\* message.
C19_AiFailureSystemMessage ==
    [][ \A r \in DOMAIN requests : AiCallFails(r) =>
          /\ UNCHANGED lists
          /\ requests'[r].writes = <<>>
          /\ requests'[r].pc = "done"
          /\ Len(requests') = Len(requests)
          /\ Len(messages') = Len(messages)
          /\ \A m \in DOMAIN messages :
                IF messages[m].req = r /\ messages[m].isLoading
                THEN messages'[m].sender = "system" /\ ~messages'[m].isLoading
                ELSE messages'[m] = messages[m] ]_vars

\* the in-memory list of a table
ListOf(table) ==
    CASE table = "transactions" -> transactions
      [] table = "goals" -> goals
      [] OTHER -> budgets

\* the row the k-th call wrote is the target of another call (an update or a
\* delete of it), which may change or remove it
WrittenAgain(k) ==
    \E j \in DOMAIN calls :
        /\ j # k
        /\ calls[j].table = calls[k].table
        /\ calls[j].op # "insert"
        /\ calls[j].id = calls[k].data[1].id

\* C20: after a successful goal or budget write (insert or update) the row
\* echoed by the backend is in the in-memory list and stays there as long as
\* no other write is made to that row; in particular after two writes that
\* were in flight together have both resolved, the list holds the rows of
\* both.
C20_EchoedRowsStay ==
    \A k \in DOMAIN calls :
        (/\ calls[k].pc = "done"
         /\ calls[k].result = "data"
         /\ calls[k].table \in {"goals", "budgets"}
         /\ calls[k].op \in {"insert", "update"}
         /\ calls[k].data # <<>>
         /\ ~WrittenAgain(k))
        => \E i \in DOMAIN ListOf(calls[k].table) :
              ListOf(calls[k].table)[i] = calls[k].data[1]

\* ------------------------------------------------------------------------
\* Properties of the conversation under overlapping sends (SpecChat)
\* ------------------------------------------------------------------------
AllResolved == \A r \in DOMAIN requests : requests[r].pc = "done"

\* the message at k is a user message followed by exactly one reply, its own
FollowedByOneReply(k) ==
    /\ k + 1 <= Len(messages)
    /\ messages[k + 1].sender # "user"
    /\ messages[k + 1].req = messages[k].req
    /\ k + 2 <= Len(messages) => messages[k + 2].sender = "user"

\* C21: whatever the interleaving of sends and answers of the model, once
\* every request has resolved no message of the conversation is still
\* loading and every user message is followed by exactly one reply.
C21_EveryMessageAnswered ==
    AllResolved =>
        /\ \A k \in DOMAIN messages : ~messages[k].isLoading
        /\ \A k \in DOMAIN messages :
              messages[k].sender = "user" => FollowedByOneReply(k)

\* ------------------------------------------------------------------------
\* Logout while data is being fetched (household and per-user variants)
\* ------------------------------------------------------------------------
\* sessions arrive, the user logs out, the reads of fetchData settle
NextLogout ==
    \/ sessionDelivered(NewSession)
    \/ handleLogout
    \/ \E f \in FetchIds : fetchStep(f)

SpecLogout == InitFetch /\ [][NextLogout]_vars

\* the user has logged out (under SpecLogout a session ends in no other
\* way) and every fetchData started before has ended
LoggedOutAndQuiet ==
    /\ session = Null
    /\ fetches # <<>>
    /\ \A f \in DOMAIN fetches : fetches[f].pc = "done"

\* C22: after logout has completed and every request that was pending at
\* logout has resolved, the in-memory transactions, goals, budgets and family
\* members are empty and the household id is null: a fetch still in flight
\* at logout does not fill them again.
C22_LogoutLeavesNothing ==
    LoggedOutAndQuiet =>
        /\ transactions = <<>>
        /\ goals = <<>>
        /\ budgets = <<>>
        /\ familyMembers = <<>>
        /\ familyId = Null

\* ------------------------------------------------------------------------
\* Updates of rows the backend no longer holds (household variant)
\* ------------------------------------------------------------------------
\* the update asked for in the chat finds no row: no error, no row echoed,
\* and the handler goes on as after any update without error
backendSettlesEmpty(r) ==
    /\ r \in DOMAIN requests
    /\ requests[r].pc = "backend"
    /\ requests[r].writes[1].op = "update"
    /\ LET req  == requests[r]
           data == <<>>
           text == writeReply(req, TRUE)
       IN  /\ transactions' = [i \in DOMAIN transactions |->
                                  IF transactions[i].id = req.target[1].id
                                  THEN First(data) ELSE transactions[i]]
           /\ requests' = [requests EXCEPT ![r] =
                                [@ EXCEPT !.pc = "done", !.result = "data",
                                          !.aiResponseText = text]]
           /\ messages' = ReplaceLast(messages, Message("ai", text, r))
    /\ UNCHANGED <<envVars, multiVars, aiVars, themeVars, fetches, calls, appVars, goals, budgets>>

\* a list holds an element that is not a row: the next render reads a field
\* of it and throws, and the app is gone
Crashed ==
    \/ \E i \in DOMAIN transactions : transactions[i] = undefined
    \/ \E i \in DOMAIN goals : goals[i] = undefined
    \/ \E i \in DOMAIN budgets : budgets[i] = undefined

\* the app handles events as long as it renders
Running == ~Crashed

NextEcho ==
    \/ Running /\ SetSession
    \/ Running /\ FetchData(StoredTransactionsOfWrites, StoredGoalsOfWrites, StoredBudgets)
    \/ Running /\ \E i \in DOMAIN transactions : handleSetEditing(transactions[i])
    \/ Running /\ \E i \in DOMAIN goals : setEditingGoal(goals[i])
    \/ Running /\ \E draft \in WriteDrafts : submitTransaction(draft, WriteToday)
    \/ Running /\ \E name \in GoalNames : submitGoal(name, 10000)
    \/ Running /\ \E category \in BudgetCategories : submitBudget(category, 1000)
    \/ Running /\ \E k \in DOMAIN calls, ok \in BOOLEAN : backendCallSettles(k, ok)
    \/ Running /\ \E k \in DOMAIN calls : backendCallSettlesEmpty(k)
    \/ Running /\ openChat
    \/ /\ Running
       /\ Len(calls) + Len(requests) < MaxWrites
       /\ handleSendMessage("Mude o aluguel para 1000")
    \/ Running /\ \E r \in DOMAIN requests, response \in WriteResponses :
                      generateContentSettles(r, response, WriteToday)
    \/ Running /\ \E r \in DOMAIN requests, ok \in BOOLEAN : backendSettles(r, ok)
    \/ Running /\ \E r \in DOMAIN requests : backendSettlesEmpty(r)

SpecEcho == InitWrites /\ [][NextEcho]_vars

\* ------------------------------------------------------------------------
\* Properties of updates (SpecEcho)
\* ------------------------------------------------------------------------
\* the step in which a form handler or the chat learns that its update of a
\* transaction went through without error
TransactionUpdateSucceeds ==
    \/ \E k \in DOMAIN calls :
          /\ calls[k].pc = "backend" /\ calls'[k].pc = "done"
          /\ calls[k].table = "transactions" /\ calls[k].op = "update"
          /\ calls'[k].result = "data"
    \/ \E r \in DOMAIN requests :
          /\ requests[r].pc = "backend" /\ requests'[r].pc = "done"
          /\ requests[r].writes[1].op = "update"
          /\ requests'[r].result = "data"

\* C23: after any successful transaction update, from the edit form or from
\* the chat, every element of the in-memory transactions is a transaction
\* record and the list has the length and the ids it had before, also when
\* the backend echoes no row.
C23_UpdateKeepsRecords ==
    [][ TransactionUpdateSucceeds =>
          /\ Len(transactions') = Len(transactions)
          /\ \A i \in DOMAIN transactions :
                /\ transactions'[i] # undefined
                /\ transactions'[i].id = transactions[i].id ]_vars

\* ------------------------------------------------------------------------
\* MonthNavigator from any day of the year's first quarter
\* ------------------------------------------------------------------------
\* new Date() when the App mounts: any day of January, February or March
NavDates ==
    { date \in [y : {StartYear}, m : 0..2, d : 1..31] :
        date.d <= DaysInMonth(date.y, date.m) }

InitNav ==
    /\ variant = "household"
    /\ timezoneOffset \in TimezoneOffsets
    /\ session = Null
    /\ fetchPending = FALSE
    /\ familyId = Null
    /\ familyMembers = <<>>
    /\ transactions = <<>>
    /\ goals = <<>>
    /\ budgets = <<>>
    /\ currentDate \in NavDates
    /\ editingTransaction = <<>>
    /\ editingGoal = <<>>
    /\ ai = TRUE
    /\ messages = <<>>
    /\ requests = <<>>
    /\ calls = <<>>
    /\ aiInsight = ""
    /\ aiSuggestion = ""
    /\ aiCalls = <<>>
    /\ inputText = ""
    /\ parsedTransactions = <<>>
    /\ fetches = <<>>
    /\ StartupSettled

NextNav ==
    \/ SetSession
    \/ \E offset \in {-1, 1} : changeMonth(offset)

SpecNav == InitNav /\ [][NextNav]_vars

\* ------------------------------------------------------------------------
\* Properties of the month navigator (SpecNav)
\* ------------------------------------------------------------------------
\* the date the navigator would select from `date` with the given offset
Pressed(date, offset) == MakeDate(date.y, date.m + offset, date.d)

\* C24: pressing next or previous changes the selected month by exactly one
\* calendar month whatever the starting date, and next followed by previous
\* selects the starting month again, also from the 29th, 30th or 31st.
C24_MonthStep ==
    [][ currentDate' # currentDate =>
          /\ Abs(MonthIndex(currentDate') - MonthIndex(currentDate)) = 1
          /\ currentDate' = Pressed(currentDate, 1) =>
                MonthIndex(Pressed(currentDate', -1)) = MonthIndex(currentDate) ]_vars

\* ------------------------------------------------------------------------
\* C25: the month filter selects exactly the transactions whose stored date
\* has the selected year and month, whatever the client's timezone offset
\* ------------------------------------------------------------------------
StoredInSelectedMonth(t) ==
    t.date.yyyy = currentDate.y /\ t.date.mm - 1 = currentDate.m

\* C25: a transaction is in filteredTransactions exactly when the year and
\* the month written in its stored date "YYYY-MM-DD" are the year and month of
\* the selected date, for every timezone offset of the client.
C25_FilterByStoredMonth ==
    \A i \in DOMAIN transactions :
        (transactions[i].id \in Ids(filteredTransactions))
            <=> StoredInSelectedMonth(transactions[i])

\* ------------------------------------------------------------------------
\* C26: budget saves leave at most one budget per category
\* ------------------------------------------------------------------------
\* C26: after any sequence of budget saves, overlapping ones included, no two
\* rows of the budgets list have the same category.
C26_OneBudgetPerCategory ==
    \A i, j \in DOMAIN budgets :
        budgets[i].category = budgets[j].category => i = j

\* ------------------------------------------------------------------------
\* C27: chat of the local-state variant, replies to updateGoal, deleteGoal
\* and deleteBudget
\* ------------------------------------------------------------------------
\* the AI answer of request r arrives in this step and the reply reports that
\* the goal or budget of `action` was updated or removed
ReportsSuccess(r, action) ==
    /\ variant = "local"
    /\ r \in DOMAIN requests
    /\ requests[r].pc = "ai"
    /\ requests'[r].pc = "done"
    /\ requests'[r].response[1].kind = "json"
    /\ requests'[r].response[1].action = action
    /\ requests'[r].aiResponseText # aiResponseTextDefault

GoalsNamed(name) ==
    {i \in DOMAIN goals : toLowerCase(goals[i].name) = toLowerCase(name)}

\* C27: a reply that reports an updated goal, a removed goal or a removed
\* budget is given only in a step that changed or removed exactly one goal or
\* budget.
C27_SuccessMeansOneAffected ==
    [][ \A r \in DOMAIN requests :
          /\ ReportsSuccess(r, "updateGoal") =>
                /\ Cardinality(GoalsNamed(requests'[r].response[1].name)) = 1
                /\ Len(goals') = Len(goals)
          /\ ReportsSuccess(r, "deleteGoal") => Len(goals') = Len(goals) - 1
          /\ ReportsSuccess(r, "deleteBudget") => Len(budgets') = Len(budgets) - 1
      ]_vars

\* ------------------------------------------------------------------------
\* C28: the household id carried by the writes of the household variant.
\* The app with its session, fetchData, logout, the transaction form, the
\* delete button and the chat
\* ------------------------------------------------------------------------
InitHousehold ==
    /\ InitChat
    /\ variant = "household"
    /\ ai = TRUE

MaxHouseholdWrites == 1     \* writes (forms and chat) started beside the fetches

NextHousehold ==
    \/ sessionDelivered(NewSession)
    \/ handleLogout
    \/ \E f \in FetchIds : fetchStep(f)
    \/ \E draft \in WriteDrafts :
          Len(calls) + Len(requests) < MaxHouseholdWrites /\ submitTransaction(draft, WriteToday)
    \/ \E i \in DOMAIN transactions :
          Len(calls) + Len(requests) < MaxHouseholdWrites /\ confirmDeleteTransaction(transactions[i].id)
    \/ \E i \in DOMAIN goals :
          Len(calls) + Len(requests) < MaxHouseholdWrites /\ confirmDeleteGoal(goals[i].id)
    \/ \E k \in DOMAIN calls, ok \in BOOLEAN : backendCallSettles(k, ok)
    \/ openChat
    \/ /\ Len(calls) + Len(requests) < MaxHouseholdWrites
       /\ handleSendMessage("Mude o aluguel para 1000")
    \/ \E r \in DOMAIN requests, response \in WriteResponses :
          generateContentSettles(r, response, WriteToday)
    \/ \E r \in DOMAIN requests, ok \in BOOLEAN : backendSettles(r, ok)

SpecHousehold == InitHousehold /\ [][NextHousehold]_vars

\* a form or button handler issues its write in this step
FormWriteIssued == Len(calls') = Len(calls) + 1

\* the chat handler of request r issues its write in this step
ChatWriteIssued(r) ==
    /\ r \in DOMAIN requests
    /\ requests[r].pc = "ai"
    /\ requests'[r].pc = "backend"

\* C28: every insert, update and delete on transactions, goals and budgets
\* carries the current household id, and none is issued while the household
\* id is null.
C28_WritesCarryHousehold ==
    [][ /\ FormWriteIssued =>
            /\ familyId # Null
            /\ calls'[Len(calls')].family_id = familyId
        /\ \A r \in DOMAIN requests :
            ChatWriteIssued(r) =>
                /\ familyId # Null
                /\ requests'[r].writes[1].family_id = familyId ]_vars

\* ------------------------------------------------------------------------
\* C29: the edit form of the Transactions screen, its handlers split at the
\* await
\* ------------------------------------------------------------------------
NextEdit ==
    \/ SetSession
    \/ FetchData(StoredTransactionsOfChat, {<<>>}, {<<>>})
    \/ \E i \in DOMAIN transactions : handleSetEditing(transactions[i])
    \/ cancelEditing
    \/ \E draft \in WriteDrafts : submitTransaction(draft, WriteToday)
    \/ \E k \in DOMAIN calls, ok \in BOOLEAN : backendCallSettles(k, ok)

SpecEdit == InitWrites /\ [][NextEdit]_vars

\* the edit form issues its update in this step
EditSaveIssued ==
    /\ Len(calls') = Len(calls) + 1
    /\ calls'[Len(calls')].handler = "handleAddOrUpdateTransaction"
    /\ calls'[Len(calls')].op = "update"

\* the update issued by the edit form as its k-th call settles in this step
EditSaveSettles(k, result) ==
    /\ k \in DOMAIN calls
    /\ calls[k].handler = "handleAddOrUpdateTransaction"
    /\ calls[k].op = "update"
    /\ calls[k].pc = "backend"
    /\ calls'[k].pc = "done"
    /\ calls'[k].result = result

\* C29: saving an edited transaction writes to the record with that
\* transaction's id and keeps its date; when the update settles every other
\* in-memory transaction is unchanged; a failed update leaves the form editing
\* the same transaction; and the form stops editing a transaction only when
\* the update of that transaction succeeds or the user cancels.
C29_EditSaveFrame ==
    [][ /\ EditSaveIssued =>
            /\ editingTransaction # <<>>
            /\ calls'[Len(calls')].id = editingTransaction[1].id
            /\ calls'[Len(calls')].rows[1].date = editingTransaction[1].date
        /\ \A k \in DOMAIN calls :
            /\ EditSaveSettles(k, "data") =>
                /\ Len(transactions') = Len(transactions)
                /\ \A i \in DOMAIN transactions :
                     transactions[i].id # calls[k].id => transactions'[i] = transactions[i]
            /\ EditSaveSettles(k, "error") =>
                /\ transactions' = transactions
                /\ editingTransaction' = editingTransaction
        /\ (editingTransaction # <<>> /\ editingTransaction' = <<>>) =>
            \/ cancelEditing
            \/ \E k \in DOMAIN calls :
                 EditSaveSettles(k, "data") /\ calls[k].id = editingTransaction[1].id
      ]_vars

\* ------------------------------------------------------------------------
\* C30: the multi-add screen (MultipleTransactions)
\* ------------------------------------------------------------------------
charAt(s, i) == IF i \in 1..Len(s) THEN SubSeq(s, i, i) ELSE ""

\* inputText.split('\n')
RECURSIVE split(_)
split(s) ==
    IF \A i \in 1..Len(s) : charAt(s, i) # "\n" THEN <<s>>
    ELSE LET i == CHOOSE i \in 1..Len(s) :
                    charAt(s, i) = "\n" /\ \A j \in 1..(i - 1) : charAt(s, j) # "\n"
         IN  <<SubSeq(s, 1, i - 1)>> \o split(SubSeq(s, i + 1, Len(s)))

Digits == {"0", "1", "2", "3", "4", "5", "6", "7", "8", "9"}

DigitValue(c) ==
    CASE c = "0" -> 0 [] c = "1" -> 1 [] c = "2" -> 2 [] c = "3" -> 3 [] c = "4" -> 4
      [] c = "5" -> 5 [] c = "6" -> 6 [] c = "7" -> 7 [] c = "8" -> 8 [] c = "9" -> 9

\* the end of the longest run of characters of `class` that starts at i
\* (i - 1 when there is none)
runEnd(s, i, class) ==
    CHOOSE j \in (i - 1)..Len(s) :
        /\ \A k \in i..j : charAt(s, k) \in class
        /\ charAt(s, j + 1) \notin class

\* s.replace(pattern, by) with a one-character string pattern: the first
\* occurrence only
replace(s, pattern, by) ==
    IF \A i \in 1..Len(s) : charAt(s, i) # pattern THEN s
    ELSE LET i == CHOOSE i \in 1..Len(s) :
                    charAt(s, i) = pattern /\ \A j \in 1..(i - 1) : charAt(s, j) # pattern
         IN  SubSeq(s, 1, i - 1) \o by \o SubSeq(s, i + 1, Len(s))

RECURSIVE digitsValue(_)
digitsValue(s) ==
    IF s = "" THEN 0
    ELSE digitsValue(SubSeq(s, 1, Len(s) - 1)) * 10 + DigitValue(charAt(s, Len(s)))

\* parseFloat(s) of a text that starts with digits and whose decimals, if any,
\* are zeros (the amounts of the model are whole)
parseFloat(s) ==
    LET e == runEnd(s, 1, Digits)
        f == IF charAt(s, e + 1) = "." THEN runEnd(s, e + 2, Digits) ELSE e
    IN  CASE e >= 1 /\ \A k \in (e + 2)..f : charAt(s, k) = "0" ->
                digitsValue(SubSeq(s, 1, e))

\* /(.*?):\s*R?\$\s*([\d,.]+)/ with the colon of the match in position p:
\* the text of the second group, or nothing when the rest does not match
matchAt(s, p) ==
    LET a == runEnd(s, p + 1, {" "}) + 1
        b == IF charAt(s, a) = "R" THEN a + 1 ELSE a
        c == runEnd(s, b + 1, {" "}) + 1
        e == runEnd(s, c, Digits \cup {",", "."})
    IN  IF charAt(s, p) = ":" /\ charAt(s, b) = "$" /\ e >= c
        THEN << SubSeq(s, c, e) >> ELSE <<>>

\* line.match(regex) and the draft built from it; <<>> is null
parseLine(line) ==
    LET ps == {p \in 1..Len(line) : matchAt(line, p) # <<>>}
    IN  IF ps = {} THEN <<>>
        ELSE LET p == CHOOSE p \in ps : \A q \in ps : p <= q
             IN  << [description |-> trim(SubSeq(line, 1, p - 1)),
                     amount |-> parseFloat(replace(replace(matchAt(line, p)[1], ".", ""),
                                                   ",", ".")),
                     category |-> "Outros", person |-> "Ambos", flow |-> "expense"] >>

RECURSIVE parseLines(_)
parseLines(lines) ==
    IF lines = <<>> THEN <<>>
    ELSE (IF trim(Head(lines)) = "" THEN <<>> ELSE parseLine(Head(lines)))
         \o parseLines(Tail(lines))

\* what the user pastes in the textarea
InputTexts ==
    { "Padaria: R$ 20\nFarmacia: R$ 1.035,00",
      "Mercado:R$80\n\nsem valor",
      "lembrar de pagar" }

\* <textarea value={inputText} onChange={e => setInputText(e.target.value)}>
setInputText(text) ==
    /\ session # Null
    /\ inputText' = text
    /\ UNCHANGED <<envVars, parsedTransactions, aiVars, themeVars, fetches, calls, chatVars,
                   authVars, transactions, goals, budgets, currentDate,
                   editingTransaction, editingGoal>>

\* MultipleTransactions.handleParseText
handleParseText ==
    /\ session # Null
    /\ parsedTransactions' = parseLines(split(inputText))
    /\ UNCHANGED <<envVars, inputText, aiVars, themeVars, fetches, calls, chatVars,
                   authVars, transactions, goals, budgets, currentDate,
                   editingTransaction, editingGoal>>

\* MultipleTransactions.handleUpdateField(index, 'person', value)
handleUpdateField(index, value) ==
    /\ session # Null
    /\ index \in DOMAIN parsedTransactions
    /\ parsedTransactions' = [parsedTransactions EXCEPT ![index].person = value]
    /\ UNCHANGED <<envVars, inputText, aiVars, themeVars, fetches, calls, chatVars,
                   authVars, transactions, goals, budgets, currentDate,
                   editingTransaction, editingGoal>>

InitMulti ==
    /\ InitChat
    /\ variant = "household"
    /\ ai = TRUE

\* the profile read may fail, and then the screen is used with no household id
NextMulti ==
    \/ SetSession
    \/ FetchData(StoredTransactionsOfWrites, {<<>>}, {<<>>})
    \/ \E text \in InputTexts : setInputText(text)
    \/ handleParseText
    \/ \E i \in DOMAIN parsedTransactions : handleUpdateField(i, "Natan")
    \/ handleSubmitAll(parsedTransactions, WriteToday)
    \/ \E k \in DOMAIN calls, ok \in BOOLEAN : backendCallSettles(k, ok)

SpecMulti == InitMulti /\ [][NextMulti]_vars

\* the k-th call is a batch insert of the multi-add screen that settles in
\* this step with `result`
BatchSettles(k, result) ==
    /\ k \in DOMAIN calls
    /\ calls[k].handler = "handleSubmitAll"
    /\ calls[k].pc = "backend"
    /\ calls'[k].pc = "done"
    /\ calls'[k].result = result

\* C30: saving the parsed expenses issues one batch insert of all the drafts;
\* a failed insert changes neither the transactions nor the pasted text nor
\* the drafts; a successful one prepends every echoed row and clears text and
\* drafts; and with no drafts or no household id no call is made.
C30_BatchSave ==
    [][ /\ Len(calls') > Len(calls) =>
            /\ Len(calls') = Len(calls) + 1
            /\ calls'[Len(calls')].op = "insert"
            /\ calls'[Len(calls')].table = "transactions"
            /\ Len(calls'[Len(calls')].rows) = Len(parsedTransactions)
            /\ \A i \in DOMAIN parsedTransactions :
                 calls'[Len(calls')].rows[i].description = parsedTransactions[i].description
        /\ (Len(parsedTransactions) = 0 \/ familyId = Null) => Len(calls') = Len(calls)
        /\ \A k \in DOMAIN calls :
            /\ BatchSettles(k, "error") =>
                /\ transactions' = transactions
                /\ inputText' = inputText
                /\ parsedTransactions' = parsedTransactions
            /\ BatchSettles(k, "data") =>
                /\ Len(calls'[k].data) = Len(calls[k].rows)
                /\ transactions' = calls'[k].data \o transactions
                /\ inputText' = ""
                /\ parsedTransactions' = <<>>
      ]_vars

\* a batch failed and a later one was saved: two echoed rows are at the head
\* of the list, text and drafts are empty
C30_Witness ==
    /\ Len(calls) = 2
    /\ calls[1].handler = "handleSubmitAll" /\ calls[1].result = "error"
    /\ calls[2].handler = "handleSubmitAll" /\ calls[2].result = "data"
    /\ Len(calls[2].data) = 2
    /\ Len(transactions) >= 2
    /\ SubSeq(transactions, 1, 2) = calls[2].data
    /\ inputText = ""
    /\ parsedTransactions = <<>>

====
